---- MODULE Spec2Model ----
(***************************************************************************)
(* Quality validation and quality-gated capture of crabcamera.             *)
(*                                                                         *)
(* Numbers.  The program computes in f32.  Sub-scores (blur, exposure,     *)
(* composition, technical, noise, colour balance, thresholds of the        *)
(* configuration) are integers in units of 1/10000 (One = 1.0).  The       *)
(* overall score is the weighted sum of the four sub-scores with the       *)
(* weights 35, 35, 15, 15, so it is an integer in units of 1/1000000       *)
(* (Full = 1.0) and no rounding happens in the sum.                        *)
(*                                                                         *)
(* Frames.  A captured frame is represented by what the per-pixel          *)
(* analyzers measure on it: its dimensions, the blur level of its          *)
(* Laplacian variance, the exposure level of its mean brightness, its      *)
(* brightness deviation, dynamic range, noise estimate and colour          *)
(* balance score.                                                          *)
(***************************************************************************)
EXTENDS Integers, Sequences, FiniteSets, Bags, TLC

One == 10000
Full == 1000000

\* Option: None and Some(x)
None == << >>
Some(x) == <<x>>

Min(a, b) == IF a <= b THEN a ELSE b
Max(a, b) == IF a >= b THEN a ELSE b

\* f32::clamp(lo, hi)
clamp(x, lo, hi) == IF x < lo THEN lo ELSE IF x > hi THEN hi ELSE x

\* Option::unwrap_or
unwrap_or(opt, default) == IF opt = None THEN default ELSE opt[1]

Abs(x) == IF x < 0 THEN -x ELSE x

(***************************************************************************)
(* quality/blur.rs                                                         *)
(***************************************************************************)
BlurLevel == {"Sharp", "Good", "Moderate", "Blurry", "VeryBlurry"}

\* BlurLevel::quality_score
BlurLevel_quality_score(level) ==
    CASE level = "Sharp" -> One
      [] level = "Good" -> 8000
      [] level = "Moderate" -> 6000
      [] level = "Blurry" -> 3000
      [] level = "VeryBlurry" -> 1000

(***************************************************************************)
(* quality/exposure.rs                                                     *)
(***************************************************************************)
ExposureLevel ==
    {"Underexposed", "SlightlyDark", "WellExposed", "SlightlyBright", "Overexposed"}

\* ExposureLevel::quality_score
ExposureLevel_quality_score(level) ==
    CASE level = "WellExposed" -> One
      [] level \in {"SlightlyDark", "SlightlyBright"} -> 8000
      [] level \in {"Underexposed", "Overexposed"} -> 3000

\* ExposureAnalyzer::calculate_quality_score
calculate_quality_score(exposure_level, brightness_std, dynamic_range) ==
    LET exposure_score == ExposureLevel_quality_score(exposure_level)
        contrast_score ==
            IF brightness_std > 1500 /\ brightness_std < 3500 THEN One
            ELSE IF brightness_std > 1000 /\ brightness_std < 4000 THEN 8000
            ELSE 5000
        range_score ==
            IF dynamic_range > 7000 THEN One
            ELSE IF dynamic_range > 5000 THEN 8000
            ELSE IF dynamic_range > 3000 THEN 6000
            ELSE 4000
    IN clamp((exposure_score * 60 + contrast_score * 25 + range_score * 15) \div 100,
             0, One)

(***************************************************************************)
(* quality/validator.rs                                                    *)
(***************************************************************************)
\* ValidationConfig::default
ValidationConfig_default ==
    [blur_threshold |-> 6000,
     exposure_threshold |-> 6000,
     overall_threshold |-> 700000,
     min_resolution |-> <<640, 480>>,
     max_noise_level |-> 3000]

\* QualityScore::new
QualityScore_new(blur, exposure, composition, technical) ==
    [overall |-> clamp(blur * 35 + exposure * 35 + composition * 15 + technical * 15,
                       0, Full),
     blur |-> blur,
     exposure |-> exposure,
     composition |-> composition,
     technical |-> technical]

\* get_grade with the lower bound of Excellent exclusive
get_grade_exclusive(overall) ==
    IF overall > 900000 THEN "Excellent"
    ELSE IF overall >= 800000 THEN "VeryGood"
    ELSE IF overall >= 700000 THEN "Good"
    ELSE IF overall >= 600000 THEN "Fair"
    ELSE IF overall >= 400000 THEN "Poor"
    ELSE "VeryPoor"

\* QualityScore::get_grade
get_grade(overall) ==
    IF overall >= 900000 THEN "Excellent"
    ELSE IF overall >= 800000 THEN "VeryGood"
    ELSE IF overall >= 700000 THEN "Good"
    ELSE IF overall >= 600000 THEN "Fair"
    ELSE IF overall >= 400000 THEN "Poor"
    ELSE "VeryPoor"

\* analyze_composition with a resolution score that ignores the configuration
analyze_composition_fixed(config, frame) ==
    LET w == frame.width
        h == frame.height
        aspect_ratio_score ==
            IF 10 * Abs(9 * w - 16 * h) < 9 * h THEN One
            ELSE IF 10 * Abs(3 * w - 4 * h) < 3 * h THEN 9000
            ELSE IF 10 * Abs(2 * w - 3 * h) < 2 * h THEN 8000
            ELSE 6000
        color_score == frame.color_balance_score
    IN clamp((One * 40 + aspect_ratio_score * 30 + color_score * 30) \div 100,
             0, One)

\* QualityValidator::analyze_composition; the aspect ratio is width/height
\* and |width/height - a/b| < 0.1 is 10 * |b*width - a*height| < b*height.
analyze_composition(config, frame) ==
    LET w == frame.width
        h == frame.height
        resolution_score ==
            IF w >= config.min_resolution[1] /\ h >= config.min_resolution[2]
            THEN One ELSE 6000
        aspect_ratio_score ==
            IF 10 * Abs(9 * w - 16 * h) < 9 * h THEN One
            ELSE IF 10 * Abs(3 * w - 4 * h) < 3 * h THEN 9000
            ELSE IF 10 * Abs(2 * w - 3 * h) < 2 * h THEN 8000
            ELSE 6000
        color_score == frame.color_balance_score
    IN clamp((resolution_score * 40 + aspect_ratio_score * 30 + color_score * 30) \div 100,
             0, One)

\* is_frame_acceptable without the test of the resolution
is_frame_acceptable_any_resolution(config, quality_score, frame) ==
    /\ quality_score.overall >= config.overall_threshold
    /\ quality_score.blur >= config.blur_threshold
    /\ quality_score.exposure >= config.exposure_threshold
    /\ frame.noise_estimate <= config.max_noise_level

\* QualityValidator::is_frame_acceptable
is_frame_acceptable(config, quality_score, frame) ==
    /\ quality_score.overall >= config.overall_threshold
    /\ quality_score.blur >= config.blur_threshold
    /\ quality_score.exposure >= config.exposure_threshold
    /\ frame.width >= config.min_resolution[1]
    /\ frame.height >= config.min_resolution[2]
    /\ frame.noise_estimate <= config.max_noise_level

\* the messages of generate_recommendations
BlurryMessage ==
    "Image is blurry. Try stabilizing the camera or using faster shutter speed."
UnderexposedMessage ==
    "Image is underexposed. Increase exposure time, ISO, or add lighting."
OverexposedMessage ==
    "Image is overexposed. Decrease exposure time, lower ISO, or reduce lighting."
NoiseMessage ==
    "High noise detected. Consider lowering ISO or improving lighting conditions."
ResolutionMessage ==
    "Low resolution detected. Consider using higher resolution settings."
ColorMessage ==
    "Poor color balance detected. Check white balance settings or lighting conditions."
GoodMessage == "Image quality is good. No specific improvements needed."

\* generate_recommendations stopping at the first rule that fires
generate_recommendations_first(config, frame) ==
    IF frame.blur_level \in {"Blurry", "VeryBlurry"} THEN <<BlurryMessage>>
    ELSE IF frame.exposure_level = "Underexposed" THEN <<UnderexposedMessage>>
    ELSE IF frame.exposure_level = "Overexposed" THEN <<OverexposedMessage>>
    ELSE IF frame.noise_estimate > config.max_noise_level THEN <<NoiseMessage>>
    ELSE IF \/ frame.width < config.min_resolution[1]
            \/ frame.height < config.min_resolution[2]
    THEN <<ResolutionMessage>>
    ELSE IF frame.color_balance_score < 6000 THEN <<ColorMessage>>
    ELSE <<GoodMessage>>

\* generate_recommendations without the rule of the resolution
generate_recommendations_any_resolution(config, frame) ==
    LET blur == IF frame.blur_level \in {"Blurry", "VeryBlurry"}
                THEN <<BlurryMessage>> ELSE << >>
        exposure == IF frame.exposure_level = "Underexposed"
                    THEN <<UnderexposedMessage>>
                    ELSE IF frame.exposure_level = "Overexposed"
                    THEN <<OverexposedMessage>> ELSE << >>
        noise == IF frame.noise_estimate > config.max_noise_level
                 THEN <<NoiseMessage>> ELSE << >>
        color == IF frame.color_balance_score < 6000
                 THEN <<ColorMessage>> ELSE << >>
        recommendations == blur \o exposure \o noise \o color
    IN IF recommendations = << >> THEN <<GoodMessage>> ELSE recommendations

\* QualityValidator::generate_recommendations
generate_recommendations(config, frame) ==
    LET blur == IF frame.blur_level \in {"Blurry", "VeryBlurry"}
                THEN <<BlurryMessage>> ELSE << >>
        exposure == IF frame.exposure_level = "Underexposed"
                    THEN <<UnderexposedMessage>>
                    ELSE IF frame.exposure_level = "Overexposed"
                    THEN <<OverexposedMessage>> ELSE << >>
        noise == IF frame.noise_estimate > config.max_noise_level
                 THEN <<NoiseMessage>> ELSE << >>
        resolution == IF \/ frame.width < config.min_resolution[1]
                         \/ frame.height < config.min_resolution[2]
                      THEN <<ResolutionMessage>> ELSE << >>
        color == IF frame.color_balance_score < 6000
                 THEN <<ColorMessage>> ELSE << >>
        recommendations == blur \o exposure \o noise \o resolution \o color
    IN IF recommendations = << >> THEN <<GoodMessage>> ELSE recommendations

\* QualityValidator::validate_frame, lines 159-177: the analyzers, the
\* composition score, which reads the configuration, the score and the grade
validate_frame_score(config, frame) ==
    LET blur_score == BlurLevel_quality_score(frame.blur_level)
        exposure_score == calculate_quality_score(frame.exposure_level,
                                                  frame.brightness_std,
                                                  frame.dynamic_range)
        composition_score == analyze_composition(config, frame)
        quality_score == QualityScore_new(blur_score, exposure_score,
                                          composition_score, frame.noise_estimate)
    IN [score |-> quality_score,
        grade |-> get_grade(quality_score.overall)]

\* QualityValidator::validate_frame, lines 179-193: the recommendations and
\* the acceptance, which read the configuration again, and the report
validate_frame_report(config, scored, frame) ==
    [score |-> scored.score,
     grade |-> scored.grade,
     recommendations |-> generate_recommendations(config, frame),
     is_acceptable |-> is_frame_acceptable(config, scored.score, frame),
     technical_details |-> [resolution |-> <<frame.width, frame.height>>,
                            noise_estimate |-> frame.noise_estimate]]

\* QualityValidator::validate_frame
validate_frame(config, frame) ==
    validate_frame_report(config, validate_frame_score(config, frame), frame)

\* The frames the capture collaborator can deliver.
MkFrame(w, h, bl, el, std, dr, noise, color) ==
    [width |-> w, height |-> h, blur_level |-> bl, exposure_level |-> el,
     brightness_std |-> std, dynamic_range |-> dr, noise_estimate |-> noise,
     color_balance_score |-> color]

\* overall 0.91 with every configuration used here
SharpFrame == MkFrame(1280, 720, "Sharp", "WellExposed", 2500, 8000, 4000, One)
\* overall exactly 0.9 with the default configuration
EdgeFrame == MkFrame(1280, 720, "Good", "WellExposed", 2500, 8000, 8000, One)
\* overall 0.78 with the default configuration
GoodFrame == MkFrame(640, 480, "Good", "WellExposed", 2000, 6000, 1000, One)
\* the uniform grey 640x480 frame of the tests, overall 0.45525
FlatFrame == MkFrame(640, 480, "VeryBlurry", "WellExposed", 0, 0, 0, One)

Frames == {SharpFrame, EdgeFrame, GoodFrame, FlatFrame}

\* Err(..) of capture_single_photo
CaptureErr == [error |-> "Failed to capture frame"]

CaptureOutcomes == Frames \cup {CaptureErr}

\* The configurations update_quality_config is called with: the defaults and
\* the HD configuration of test_quality_config_update.
HdConfig ==
    [blur_threshold |-> 8000,
     exposure_threshold |-> 8000,
     overall_threshold |-> 900000,
     min_resolution |-> <<1920, 1080>>,
     max_noise_level |-> 2000]

Configs == {ValidationConfig_default, HdConfig}

\* estimate_noise_level without the clamp
estimate_noise_level_unclamped(len, mean_noise) ==
    IF len < 9 THEN One
    ELSE (mean_noise * One) \div 255

\* QualityValidator::estimate_noise_level on a buffer of len bytes;
\* mean_noise is the mean of the local variances of the sampled triplets
estimate_noise_level(len, mean_noise) ==
    IF len < 9 THEN One
    ELSE clamp((mean_noise * One) \div 255, 0, One)

\* CameraFrame::new(data, width, height, ..) with data.len() = len, together
\* with what the analyzers measure on data
CameraFrame_new(len, w, h, bl, el, std, dr, mean_noise, color) ==
    [width |-> w, height |-> h, blur_level |-> bl, exposure_level |-> el,
     brightness_std |-> std, dynamic_range |-> dr,
     noise_estimate |-> estimate_noise_level(len, mean_noise),
     color_balance_score |-> color, len |-> len]

\* The frames validate_provided_frame is called with.
\* 640x480, acceptable with the defaults, overall 0.7797
VgaFrame ==
    CameraFrame_new(640 * 480 * 3, 640, 480, "Good", "WellExposed", 2000, 6000, 25, One)
\* 320x240, overall 0.866, below the default minimum resolution
SmallFrame ==
    CameraFrame_new(320 * 240 * 3, 320, 240, "Sharp", "WellExposed", 2500, 8000, 76, One)
\* 1280x720 with sampled variances far above 255, overall 1.0
NoisyFrame ==
    CameraFrame_new(1280 * 720 * 3, 1280, 720, "Sharp", "WellExposed", 2500, 8000, 1020, One)
\* 1280x720, overall exactly 0.9
BandFrame ==
    CameraFrame_new(1280 * 720 * 3, 1280, 720, "Good", "WellExposed", 2500, 8000, 204, One)
\* the uniform frame create_test_frame(640, 480, 128), overall 0.45525
GreyFrame ==
    CameraFrame_new(640 * 480 * 3, 640, 480, "VeryBlurry", "WellExposed", 0, 0, 0, One)
\* 640x480 with a zero-length buffer: the grayscale image is empty, every
\* convolution sum is 0, the mean brightness is 0.0, the noise estimate is
\* 1.0 (len < 9) and the colour balance score is 0.0
EmptyFrame ==
    CameraFrame_new(0, 640, 480, "VeryBlurry", "Underexposed", 0, 0, 0, 0)

ProvidedFrames ==
    {VgaFrame, SmallFrame, NoisyFrame, BandFrame, GreyFrame, EmptyFrame}

\* the configuration of test_low_resolution_rejection
HiResConfig == [ValidationConfig_default EXCEPT !.min_resolution = <<1920, 1080>>]

\* a configuration with a negative noise ceiling and a threshold above 1.0
MalformedConfig ==
    [ValidationConfig_default EXCEPT !.max_noise_level = -1000,
                                     !.overall_threshold = 1500000]

\* The ValidationConfigDto values update_quality_config is called with by
\* the sessions.
ConfigDtos == {ValidationConfig_default, HdConfig, HiResConfig, MalformedConfig}

(***************************************************************************)
(* commands/quality.rs: the three retry loops.  One task runs one call at  *)
(* a time; its locals are the fields of task.  The steps of a call are     *)
(* the stretches of code between two awaits.                               *)
(***************************************************************************)
MaxRequest == 3
MaxTimeout == 2
MaxElapsed == 2

DefaultAttemptsBest == 5
HardCapBest == 10
DefaultThreshold == 700000
DefaultAttemptsAuto == 20
HardCapAuto == 50
DefaultTimeout == 30
DefaultSamples == 10
HardCapTrend == 20
ExcellentScore == 900000

RequestedCounts == {None} \cup {Some(n) : n \in 0 .. MaxRequest}
RequestedThresholds == {None, Some(0), Some(780000), Some(950000)}
RequestedTimeouts == {None} \cup {Some(s) : s \in 0 .. MaxTimeout}

\* the f32 NaN of 0.0 / 0.0; every statistic is >= 0
NaN == -1

VARIABLES
    task,      \* the locals and the position of the running call
    config,    \* the configuration of QUALITY_VALIDATOR
    readers,   \* read guards held on QUALITY_VALIDATOR
    elapsed,   \* start_time.elapsed().as_secs() of auto_capture_with_quality
    obs,       \* what the capture collaborator saw of the current call
    procs,     \* the sessions calling the validator commands, and their locals
    writer,    \* the session holding the write guard on QUALITY_VALIDATOR, or 0
    analysis,  \* the frame the analyzers run on, and their metrics
    workers,   \* the tasks calling the commands, and their locals
    locks      \* the waiters of QUALITY_VALIDATOR, CAMERA_REGISTRY and the camera

vars ==
    <<task, config, readers, elapsed, obs, procs, writer, analysis, workers, locks>>

\* the sessions that call the commands concurrently
NumProcs == 2
Procs == 1 .. NumProcs

\* used: the configuration of the validator when the session got its guard
\* or, for get_quality_config, when the call returned
IdleProc ==
    [pc |-> "idle", op |-> "none", frame |-> None, dto |-> None, scored |-> None,
     used |-> None, result |-> None]

\* no frame is being analyzed
NoAnalysis == [pc |-> "idle", frame |-> None, blur |-> None, exposure |-> None]

NoArgs ==
    [num_attempts |-> None, min_quality_threshold |-> None,
     max_attempts |-> None, timeout_seconds |-> None, num_samples |-> None]

IdleTask ==
    [pc |-> "idle", op |-> "none", args |-> NoArgs, attempts |-> 0, attempt |-> 0,
     quality_threshold |-> 0, timeout |-> 0, sleep |-> 0,
     best_frame |-> None, best_report |-> None, best_score |-> 0,
     reports |-> EmptyBag, result |-> None]

\* the tasks that call the commands concurrently
Workers == {1, 2}

\* the attempts best-of-N is called with by the tasks
MaxLoops == 2

\* num_attempts of the tasks' calls of best-of-N, and max_attempts and
\* num_samples of their calls of the other two loops
BestCounts == {Some(MaxLoops)}
SampleCounts == {Some(1)}

\* t: the locals of a retry loop
IdleWorker ==
    [pc |-> "idle", op |-> "none", t |-> IdleTask, dto |-> None, frame |-> None,
     result |-> None]

\* no guard is held and no task waits; created: the camera "0" is in the
\* registry
NoLocks ==
    [validator |-> << >>,
     registry |-> [readers |-> 0, writer |-> 0, queue |-> << >>],
     camera |-> [holder |-> 0, queue |-> << >>],
     created |-> FALSE]

\* issued: capture calls issued; ok, failed: captures that returned Ok, Err;
\* max_overall: the highest overall score validated; last: the outcome of the
\* last capture; cfg: the configuration the last validation read
NoObs ==
    [issued |-> 0, ok |-> 0, failed |-> 0, max_overall |-> 0, last |-> None,
     cfg |-> None]

Ok(value) == [ok |-> TRUE, value |-> value]
Err(error) == [ok |-> FALSE, error |-> error]

Return(t, result) == [t EXCEPT !.pc = "done", !.result = Some(result)]

---------------------------------------------------------------------------
\* capture_best_quality_frame_result failing unless the best frame is good
capture_best_quality_frame_result_good(t) ==
    IF t.best_frame # None /\ t.best_report # None /\ t.best_score >= DefaultThreshold
    THEN Return(t, Ok([frame |-> t.best_frame[1],
                       quality_report |-> t.best_report[1],
                       attempts_used |-> t.attempts]))
    ELSE Return(t, Err([kind |-> "Failed to capture any valid frames"]))

\* capture_best_quality_frame, lines 164-173: the result after the loop
capture_best_quality_frame_result(t) ==
    IF t.best_frame # None /\ t.best_report # None
    THEN Return(t, Ok([frame |-> t.best_frame[1],
                       quality_report |-> t.best_report[1],
                       attempts_used |-> t.attempts]))
    ELSE Return(t, Err([kind |-> "Failed to capture any valid frames"]))

\* capture_best_quality_frame, line 131: iteration `attempt` of the for loop
capture_best_quality_frame_loop(t, attempt) ==
    IF attempt > t.attempts
    THEN capture_best_quality_frame_result(t)
    ELSE [t EXCEPT !.pc = "capturing", !.attempt = attempt]

\* capture_best_quality_frame_match stopping only above 0.9
capture_best_quality_frame_match_strict(t, cfg, outcome) ==
    IF outcome = CaptureErr
    THEN capture_best_quality_frame_loop(t, t.attempt + 1)
    ELSE LET report == validate_frame(cfg, outcome)
             t1 == IF report.score.overall > t.best_score
                   THEN [t EXCEPT !.best_score = report.score.overall,
                                  !.best_frame = Some(outcome),
                                  !.best_report = Some(report)]
                   ELSE t
         IN IF t1.best_score > ExcellentScore
            THEN capture_best_quality_frame_result(t1)
            ELSE IF t1.attempt < t1.attempts
            THEN [t1 EXCEPT !.pc = "sleeping", !.sleep = 100]
            ELSE capture_best_quality_frame_loop(t1, t1.attempt + 1)

\* capture_best_quality_frame_match keeping the latest frame, not the best
capture_best_quality_frame_match_latest(t, cfg, outcome) ==
    IF outcome = CaptureErr
    THEN capture_best_quality_frame_loop(t, t.attempt + 1)
    ELSE LET report == validate_frame(cfg, outcome)
             t1 == [t EXCEPT !.best_score = report.score.overall,
                             !.best_frame = Some(outcome),
                             !.best_report = Some(report)]
         IN IF t1.best_score >= ExcellentScore
            THEN capture_best_quality_frame_result(t1)
            ELSE IF t1.attempt < t1.attempts
            THEN [t1 EXCEPT !.pc = "sleeping", !.sleep = 100]
            ELSE capture_best_quality_frame_loop(t1, t1.attempt + 1)

\* capture_best_quality_frame_match propagating a capture failure
capture_best_quality_frame_match_fatal(t, cfg, outcome) ==
    IF outcome = CaptureErr
    THEN Return(t, Err([kind |-> "Failed to capture frame"]))
    ELSE LET report == validate_frame(cfg, outcome)
             t1 == IF report.score.overall > t.best_score
                   THEN [t EXCEPT !.best_score = report.score.overall,
                                  !.best_frame = Some(outcome),
                                  !.best_report = Some(report)]
                   ELSE t
         IN IF t1.best_score >= ExcellentScore
            THEN capture_best_quality_frame_result(t1)
            ELSE IF t1.attempt < t1.attempts
            THEN [t1 EXCEPT !.pc = "sleeping", !.sleep = 100]
            ELSE capture_best_quality_frame_loop(t1, t1.attempt + 1)

\* capture_best_quality_frame, lines 135-161: the capture has returned
capture_best_quality_frame_match(t, cfg, outcome) ==
    IF outcome = CaptureErr
    THEN capture_best_quality_frame_loop(t, t.attempt + 1)
    ELSE LET report == validate_frame(cfg, outcome)
             t1 == IF report.score.overall > t.best_score
                   THEN [t EXCEPT !.best_score = report.score.overall,
                                  !.best_frame = Some(outcome),
                                  !.best_report = Some(report)]
                   ELSE t
         IN IF t1.best_score >= ExcellentScore
            THEN capture_best_quality_frame_result(t1)
            ELSE IF t1.attempt < t1.attempts
            THEN [t1 EXCEPT !.pc = "sleeping", !.sleep = 100]
            ELSE capture_best_quality_frame_loop(t1, t1.attempt + 1)

---------------------------------------------------------------------------
\* auto_capture_with_quality_loop with the timeout test `>`
auto_capture_with_quality_loop_late(t, attempt, now) ==
    IF attempt > t.attempts
    THEN Return(t, Err([kind |-> "Failed to capture frame meeting quality threshold",
                        quality_threshold |-> t.quality_threshold,
                        attempts |-> t.attempts]))
    ELSE IF now > t.timeout
    THEN Return(t, Err([kind |-> "Auto-capture timeout", timeout |-> t.timeout]))
    ELSE [t EXCEPT !.pc = "capturing", !.attempt = attempt]

\* auto_capture_with_quality_loop reporting the loop index, not max_tries
auto_capture_with_quality_loop_index(t, attempt, now) ==
    IF attempt > t.attempts
    THEN Return(t, Err([kind |-> "Failed to capture frame meeting quality threshold",
                        quality_threshold |-> t.quality_threshold,
                        attempts |-> attempt]))
    ELSE IF now >= t.timeout
    THEN Return(t, Err([kind |-> "Auto-capture timeout", timeout |-> t.timeout]))
    ELSE [t EXCEPT !.pc = "capturing", !.attempt = attempt]

\* auto_capture_with_quality, lines 195-201 and 231-232: iteration `attempt`
auto_capture_with_quality_loop(t, attempt, now) ==
    IF attempt > t.attempts
    THEN Return(t, Err([kind |-> "Failed to capture frame meeting quality threshold",
                        quality_threshold |-> t.quality_threshold,
                        attempts |-> t.attempts]))
    ELSE IF now >= t.timeout
    THEN Return(t, Err([kind |-> "Auto-capture timeout", timeout |-> t.timeout]))
    ELSE [t EXCEPT !.pc = "capturing", !.attempt = attempt]

\* auto_capture_with_quality_match testing the default threshold
auto_capture_with_quality_match_default(t, cfg, outcome) ==
    IF outcome = CaptureErr
    THEN [t EXCEPT !.pc = "sleeping", !.sleep = 50]
    ELSE LET report == validate_frame(cfg, outcome)
         IN IF report.score.overall >= DefaultThreshold
            THEN Return(t, Ok([frame |-> outcome,
                               quality_report |-> report,
                               attempts_used |-> t.attempt]))
            ELSE [t EXCEPT !.pc = "sleeping", !.sleep = 50]

\* auto_capture_with_quality, lines 204-228: the capture has returned
auto_capture_with_quality_match(t, cfg, outcome) ==
    IF outcome = CaptureErr
    THEN [t EXCEPT !.pc = "sleeping", !.sleep = 50]
    ELSE LET report == validate_frame(cfg, outcome)
         IN IF report.score.overall >= t.quality_threshold
            THEN Return(t, Ok([frame |-> outcome,
                               quality_report |-> report,
                               attempts_used |-> t.attempt]))
            ELSE [t EXCEPT !.pc = "sleeping", !.sleep = 50]

---------------------------------------------------------------------------
\* Iterator::sum over the reports, a bag: value[report] summed with
\* multiplicity over the reports in D
RECURSIVE SumOver(_, _, _)
SumOver(D, B, value) ==
    IF D = {} THEN 0
    ELSE LET e == CHOOSE e \in D : TRUE
         IN B[e] * value[e] + SumOver(D \ {e}, B, value)

BagSum(B, value) == SumOver(DOMAIN B, B, value)

\* f32::sqrt on values in units of 1/One^2, the result in units of 1/One
RECURSIVE SqrtBetween(_, _, _)
SqrtBetween(v, lo, hi) ==
    IF lo >= hi THEN lo
    ELSE LET mid == (lo + hi + 1) \div 2
         IN IF mid * mid <= v THEN SqrtBetween(v, mid, hi)
            ELSE SqrtBetween(v, lo, mid - 1)

sqrt(v) == SqrtBetween(v, 0, One)

\* analyze_quality_trends, lines 271-295: the statistics; x / 0.0 is NaN
trend_statistics(reports) ==
    LET len == BagCardinality(reports)
        Overall == [r \in DOMAIN reports |-> r.score.overall]
        Blur == [r \in DOMAIN reports |-> r.score.blur]
        Exposure == [r \in DOMAIN reports |-> r.score.exposure]
        scores == {r.score.overall : r \in DOMAIN reports}
        avg_quality == BagSum(reports, Overall) \div len
        Deviation == [r \in DOMAIN reports |->
                         ((r.score.overall - avg_quality) \div 100)
                         * ((r.score.overall - avg_quality) \div 100)]
        quality_variance == BagSum(reports, Deviation) \div len
        Acceptable == [r \in DOMAIN reports |-> IF r.is_acceptable THEN 1 ELSE 0]
        best == CHOOSE b \in scores \cup {0} : \A s \in scores \cup {0} : s <= b
        worst == CHOOSE w \in scores \cup {Full} : \A s \in scores \cup {Full} : w <= s
    IN IF len = 0
       THEN [samples_analyzed |-> 0, average_quality |-> NaN,
             average_blur_score |-> NaN, average_exposure_score |-> NaN,
             quality_variance |-> NaN, stability_score |-> NaN,
             best_score |-> best, worst_score |-> worst,
             acceptable_ratio |-> NaN]
       ELSE [samples_analyzed |-> len, average_quality |-> avg_quality,
             average_blur_score |-> BagSum(reports, Blur) \div len,
             average_exposure_score |-> BagSum(reports, Exposure) \div len,
             quality_variance |-> quality_variance,
             stability_score |-> clamp(One - sqrt(quality_variance), 0, One),
             best_score |-> best, worst_score |-> worst,
             acceptable_ratio |-> (BagSum(reports, Acceptable) * One) \div len]

\* analyze_quality_trends_result without the is_empty test
analyze_quality_trends_result_unchecked(t) ==
    Return(t, Ok(trend_statistics(t.reports)))

\* analyze_quality_trends, lines 266-295: the result after the loop
analyze_quality_trends_result(t) ==
    IF t.reports = EmptyBag
    THEN Return(t, Err([kind |-> "No valid samples captured for trend analysis"]))
    ELSE Return(t, Ok(trend_statistics(t.reports)))

\* analyze_quality_trends, line 248: sample i of the for loop
analyze_quality_trends_loop(t, i) ==
    IF i > t.attempts
    THEN analyze_quality_trends_result(t)
    ELSE [t EXCEPT !.pc = "capturing", !.attempt = i]

\* analyze_quality_trends_match leaving the loop at a capture failure
analyze_quality_trends_match_break(t, cfg, outcome) ==
    IF outcome = CaptureErr
    THEN analyze_quality_trends_result(t)
    ELSE [t EXCEPT !.pc = "sleeping", !.sleep = 200,
                   !.reports = @ (+) SetToBag({validate_frame(cfg, outcome)})]

\* analyze_quality_trends, lines 251-263: the capture has returned
analyze_quality_trends_match(t, cfg, outcome) ==
    IF outcome = CaptureErr
    THEN analyze_quality_trends_loop(t, t.attempt + 1)
    ELSE [t EXCEPT !.pc = "sleeping", !.sleep = 200,
                   !.reports = @ (+) SetToBag({validate_frame(cfg, outcome)})]

---------------------------------------------------------------------------
\* the top of loop iteration `attempt` of the running operation
Loop(t, attempt, now) ==
    CASE t.op = "best" -> capture_best_quality_frame_loop(t, attempt)
      [] t.op = "auto" -> auto_capture_with_quality_loop(t, attempt, now)
      [] t.op = "trend" -> analyze_quality_trends_loop(t, attempt)

\* the match on the result of capture_single_photo
Match(t, cfg, outcome) ==
    CASE t.op = "best" -> capture_best_quality_frame_match(t, cfg, outcome)
      [] t.op = "auto" -> auto_capture_with_quality_match(t, cfg, outcome)
      [] t.op = "trend" -> analyze_quality_trends_match(t, cfg, outcome)

\* a capture call is issued in a step that ends at the await of
\* capture_single_photo
Issued(t) == IF t.pc = "capturing" THEN 1 ELSE 0

Init ==
    /\ task = IdleTask
    /\ config = ValidationConfig_default
    /\ readers = 0
    /\ elapsed = 0
    /\ obs = NoObs
    /\ procs = [p \in Procs |-> IdleProc]
    /\ writer = 0
    /\ analysis = NoAnalysis
    /\ workers = [w \in Workers |-> IdleWorker]
    /\ locks = NoLocks

\* capture_best_quality_frame, lines 118-126, up to QUALITY_VALIDATOR.read(),
\* called with a num_attempts among counts
capture_best_quality_frame_with(counts) ==
    /\ task.pc = "idle"
    /\ \E num_attempts \in counts :
          task' = [IdleTask EXCEPT
                      !.pc = "acquire", !.op = "best",
                      !.args = [NoArgs EXCEPT !.num_attempts = num_attempts],
                      !.attempts = Min(unwrap_or(num_attempts, DefaultAttemptsBest),
                                       HardCapBest)]
    /\ UNCHANGED <<config, readers, elapsed, obs, procs, writer, analysis, workers, locks>>

capture_best_quality_frame ==
    capture_best_quality_frame_with(RequestedCounts \cup {Some(HardCapBest + 1)})

\* auto_capture_with_quality_with without the .min(50)
auto_capture_with_quality_uncapped(thresholds, counts, timeouts) ==
    /\ task.pc = "idle"
    /\ \E min_quality_threshold \in thresholds,
          max_attempts \in counts,
          timeout_seconds \in timeouts :
          task' = [IdleTask EXCEPT
                      !.pc = "acquire", !.op = "auto",
                      !.args = [NoArgs EXCEPT
                                   !.min_quality_threshold = min_quality_threshold,
                                   !.max_attempts = max_attempts,
                                   !.timeout_seconds = timeout_seconds],
                      !.quality_threshold =
                          unwrap_or(min_quality_threshold, DefaultThreshold),
                      !.attempts = unwrap_or(max_attempts, DefaultAttemptsAuto),
                      !.timeout = unwrap_or(timeout_seconds, DefaultTimeout)]
    /\ UNCHANGED <<config, readers, elapsed, obs, procs, writer, analysis, workers, locks>>

\* auto_capture_with_quality, lines 178-193, up to QUALITY_VALIDATOR.read(),
\* called with arguments among thresholds, counts and timeouts
auto_capture_with_quality_with(thresholds, counts, timeouts) ==
    /\ task.pc = "idle"
    /\ \E min_quality_threshold \in thresholds,
          max_attempts \in counts,
          timeout_seconds \in timeouts :
          task' = [IdleTask EXCEPT
                      !.pc = "acquire", !.op = "auto",
                      !.args = [NoArgs EXCEPT
                                   !.min_quality_threshold = min_quality_threshold,
                                   !.max_attempts = max_attempts,
                                   !.timeout_seconds = timeout_seconds],
                      !.quality_threshold =
                          unwrap_or(min_quality_threshold, DefaultThreshold),
                      !.attempts = Min(unwrap_or(max_attempts, DefaultAttemptsAuto),
                                       HardCapAuto),
                      !.timeout = unwrap_or(timeout_seconds, DefaultTimeout)]
    /\ UNCHANGED <<config, readers, elapsed, obs, procs, writer, analysis, workers, locks>>

auto_capture_with_quality ==
    auto_capture_with_quality_with(RequestedThresholds, RequestedCounts,
                                   RequestedTimeouts)

\* analyze_quality_trends, lines 237-245, up to QUALITY_VALIDATOR.read(),
\* called with a num_samples among counts
analyze_quality_trends_with(counts) ==
    /\ task.pc = "idle"
    /\ \E num_samples \in counts :
          task' = [IdleTask EXCEPT
                      !.pc = "acquire", !.op = "trend",
                      !.args = [NoArgs EXCEPT !.num_samples = num_samples],
                      !.attempts = Min(unwrap_or(num_samples, DefaultSamples),
                                       HardCapTrend)]
    /\ UNCHANGED <<config, readers, elapsed, obs, procs, writer, analysis, workers, locks>>

analyze_quality_trends == analyze_quality_trends_with(RequestedCounts)

\* QUALITY_VALIDATOR.read().await returns; the first iteration runs up to its
\* capture.  The guard is dropped when the function returns.
AcquireRead ==
    /\ task.pc = "acquire"
    /\ task' = Loop(task, 1, elapsed)
    /\ readers' = IF task'.pc = "done" THEN readers ELSE readers + 1
    /\ obs' = [obs EXCEPT !.issued = @ + Issued(task')]
    /\ UNCHANGED <<config, elapsed, procs, writer, analysis, workers, locks>>

\* capture_single_photo(..).await returns Ok(frame) or Err(e), one of
\* outcomes
CaptureReturnsFrom(outcomes) ==
    /\ task.pc = "capturing"
    /\ \E outcome \in outcomes :
          /\ task' = Match(task, config, outcome)
          /\ obs' = [issued |-> obs.issued + Issued(task'),
                     ok |-> IF outcome = CaptureErr THEN obs.ok ELSE obs.ok + 1,
                     failed |-> IF outcome = CaptureErr THEN obs.failed + 1
                                ELSE obs.failed,
                     max_overall |->
                         IF outcome = CaptureErr THEN obs.max_overall
                         ELSE Max(obs.max_overall,
                                  validate_frame(config, outcome).score.overall),
                     last |-> Some(outcome),
                     cfg |-> IF outcome = CaptureErr THEN obs.cfg ELSE Some(config)]
    /\ readers' = IF task'.pc = "done" THEN readers - 1 ELSE readers
    /\ UNCHANGED <<config, elapsed, procs, writer, analysis, workers, locks>>

CaptureReturns == CaptureReturnsFrom(CaptureOutcomes)

\* tokio::time::sleep(Duration::from_millis(task.sleep)).await returns; the
\* next iteration runs up to its capture
SleepReturns ==
    /\ task.pc = "sleeping"
    /\ task' = Loop([task EXCEPT !.sleep = 0], task.attempt + 1, elapsed)
    /\ obs' = [obs EXCEPT !.issued = @ + Issued(task')]
    /\ readers' = IF task'.pc = "done" THEN readers - 1 ELSE readers
    /\ UNCHANGED <<config, elapsed, procs, writer, analysis, workers, locks>>

\* the caller takes the result of the finished call
Complete ==
    /\ task.pc = "done"
    /\ task' = IdleTask
    /\ elapsed' = 0
    /\ obs' = NoObs
    /\ UNCHANGED <<config, readers, procs, writer, analysis, workers, locks>>

\* the clock of auto_capture_with_quality advances by a second while the
\* call waits
Tick ==
    /\ task.op = "auto"
    /\ task.pc \in {"acquire", "capturing", "sleeping"}
    /\ elapsed < MaxElapsed
    /\ elapsed' = elapsed + 1
    /\ UNCHANGED <<task, config, readers, obs, procs, writer, analysis, workers, locks>>

\* update_quality_config storing while read guards are held
update_quality_config_unguarded ==
    /\ \E validation_config \in Configs : config' = validation_config
    /\ UNCHANGED <<task, readers, elapsed, obs, procs, writer, analysis, workers, locks>>

\* update_quality_config, lines 81-97; QUALITY_VALIDATOR.write() is granted
\* when no read guard is held
update_quality_config ==
    /\ readers = 0
    /\ \E validation_config \in Configs : config' = validation_config
    /\ UNCHANGED <<task, readers, elapsed, obs, procs, writer, analysis, workers, locks>>

Next ==
    \/ capture_best_quality_frame
    \/ auto_capture_with_quality
    \/ analyze_quality_trends
    \/ AcquireRead
    \/ CaptureReturns
    \/ SleepReturns
    \/ Complete
    \/ Tick
    \/ update_quality_config

Spec == Init /\ [][Next]_vars

(***************************************************************************)
(* The three retry loops called with counts at and above their hard caps,  *)
(* every capture call returning.  auto_capture_with_quality is called with *)
(* its default timeout of 30 s and the calls end within the first second.  *)
(***************************************************************************)
\* the counts at and above a hard cap
CapRequests(cap) == {Some(cap), Some(cap + 1), Some(cap + MaxRequest)}

capture_best_quality_frame_large ==
    capture_best_quality_frame_with(CapRequests(HardCapBest))

auto_capture_with_quality_large ==
    auto_capture_with_quality_with({None}, CapRequests(HardCapAuto), {None})

analyze_quality_trends_large ==
    analyze_quality_trends_with(CapRequests(HardCapTrend))

\* the capture collaborator delivers the 0.78 frame, the flat frame or fails
CaptureReturnsPlain == CaptureReturnsFrom({GoodFrame, FlatFrame, CaptureErr})

CapsNext ==
    \/ capture_best_quality_frame_large
    \/ auto_capture_with_quality_large
    \/ analyze_quality_trends_large
    \/ AcquireRead
    \/ CaptureReturnsPlain
    \/ SleepReturns
    \/ Complete

\* the awaits of a call return: the read guard is granted, every capture
\* call returns, every sleep ends
SpecCaps ==
    /\ Init
    /\ [][CapsNext]_vars
    /\ WF_vars(AcquireRead)
    /\ WF_vars(CaptureReturnsPlain)
    /\ WF_vars(SleepReturns)

(***************************************************************************)
(* commands/quality.rs: the validator commands, called by concurrent       *)
(* sessions on the shared QUALITY_VALIDATOR.  A step of a session is a     *)
(* stretch of code between two awaits, or between two reads of the         *)
(* validator's configuration.                                              *)
(***************************************************************************)
\* the write guard granted whatever read guards are held
write_granted_shared(r, w) == w = 0

\* QUALITY_VALIDATOR.write().await returns when no guard is held
write_granted(r, w) == r = 0 /\ w = 0

\* QUALITY_VALIDATOR.read().await returns when no write guard is held
read_granted(r, w) == w = 0

\* validate_provided_frame, lines 34-37, up to QUALITY_VALIDATOR.read(),
\* called with a frame among frames
validate_provided_frame_from(p, frames) ==
    /\ procs[p].pc = "idle"
    /\ \E frame \in frames :
          procs' = [procs EXCEPT ![p] = [IdleProc EXCEPT !.pc = "read",
                                                         !.op = "validate",
                                                         !.frame = Some(frame)]]
    /\ UNCHANGED <<task, config, readers, elapsed, obs, writer, analysis, workers, locks>>

validate_provided_frame(p) == validate_provided_frame_from(p, ProvidedFrames)

\* QUALITY_VALIDATOR.read().await returns the read guard
ValidatorRead(p) ==
    /\ procs[p].pc = "read"
    /\ read_granted(readers, writer)
    /\ readers' = readers + 1
    /\ procs' = [procs EXCEPT ![p].pc = "guarded", ![p].used = Some(config)]
    /\ UNCHANGED <<task, config, elapsed, obs, writer, analysis, workers, locks>>

\* validator.validate_frame(&frame), validator.rs lines 159-177
ValidateScore(p) ==
    /\ procs[p].pc = "guarded"
    /\ procs' = [procs EXCEPT
                    ![p].pc = "scored",
                    ![p].scored = Some(validate_frame_score(config, procs[p].frame[1]))]
    /\ UNCHANGED <<task, config, readers, elapsed, obs, writer, analysis, workers, locks>>

\* ValidateReport storing the defaults in the validator
ValidateReport_resetting(p) ==
    /\ procs[p].pc = "scored"
    /\ procs' = [procs EXCEPT
                    ![p].pc = "done",
                    ![p].result = Some(Ok(validate_frame_report(config,
                                                                procs[p].scored[1],
                                                                procs[p].frame[1])))]
    /\ readers' = readers - 1
    /\ config' = ValidationConfig_default
    /\ UNCHANGED <<task, elapsed, obs, writer, analysis, workers, locks>>

\* validator.validate_frame(&frame), validator.rs lines 179-193, and
\* validate_provided_frame, line 40: Ok(report); the read guard is dropped
ValidateReport(p) ==
    /\ procs[p].pc = "scored"
    /\ procs' = [procs EXCEPT
                    ![p].pc = "done",
                    ![p].result = Some(Ok(validate_frame_report(config,
                                                                procs[p].scored[1],
                                                                procs[p].frame[1])))]
    /\ readers' = readers - 1
    /\ UNCHANGED <<task, config, elapsed, obs, writer, analysis, workers, locks>>

\* update_quality_config, lines 81-93, up to QUALITY_VALIDATOR.write(),
\* called with a configuration among dtos
update_quality_config_with(p, dtos) ==
    /\ procs[p].pc = "idle"
    /\ \E dto \in dtos :
          procs' = [procs EXCEPT ![p] = [IdleProc EXCEPT !.pc = "write",
                                                         !.op = "update",
                                                         !.dto = Some(dto)]]
    /\ UNCHANGED <<task, config, readers, elapsed, obs, writer, analysis, workers, locks>>

update_quality_config_call(p) == update_quality_config_with(p, ConfigDtos)

\* QUALITY_VALIDATOR.write().await returns the write guard
ValidatorWrite(p) ==
    /\ procs[p].pc = "write"
    /\ write_granted(readers, writer)
    /\ writer' = p
    /\ procs' = [procs EXCEPT ![p].pc = "store"]
    /\ UNCHANGED <<task, config, readers, elapsed, obs, analysis, workers, locks>>

\* update_quality_config, lines 94-96: *guard = validator; Ok(..); the write
\* guard is dropped
update_quality_config_store(p) ==
    /\ procs[p].pc = "store"
    /\ config' = procs[p].dto[1]
    /\ writer' = 0
    /\ procs' = [procs EXCEPT
                    ![p].pc = "done",
                    ![p].result = Some(Ok("Quality validation configuration updated"))]
    /\ UNCHANGED <<task, readers, elapsed, obs, analysis, workers, locks>>

\* get_quality_config, lines 101-114
get_quality_config(p) ==
    /\ procs[p].pc = "idle"
    /\ procs' = [procs EXCEPT ![p] = [IdleProc EXCEPT
                                         !.pc = "done",
                                         !.op = "get",
                                         !.used = Some(config),
                                         !.result = Some(Ok(ValidationConfig_default))]]
    /\ UNCHANGED <<task, config, readers, elapsed, obs, writer, analysis, workers, locks>>

\* the session takes the result of its finished call
SessionReturns(p) ==
    /\ procs[p].pc = "done"
    /\ procs' = [procs EXCEPT ![p] = IdleProc]
    /\ UNCHANGED <<task, config, readers, elapsed, obs, writer, analysis, workers, locks>>

ValidatorNext ==
    \E p \in Procs :
        \/ validate_provided_frame(p)
        \/ ValidatorRead(p)
        \/ ValidateScore(p)
        \/ ValidateReport(p)
        \/ update_quality_config_call(p)
        \/ ValidatorWrite(p)
        \/ update_quality_config_store(p)
        \/ get_quality_config(p)
        \/ SessionReturns(p)

SpecValidator == Init /\ [][ValidatorNext]_vars

(***************************************************************************)
(* One session validating frames in which every rule of                    *)
(* generate_recommendations fires or not, under the default, the HD and a  *)
(* strict configuration.                                                   *)
(***************************************************************************)
\* the frames of one session: every blur level but Sharp, four exposure
\* levels, a low and a high noise, two resolutions, a good and a poor colour
\* balance
ReportFrames ==
    {CameraFrame_new(dim[1] * dim[2] * 3, dim[1], dim[2], bl, el, 2000, 6000,
                     mean_noise, color) :
         dim \in {<<640, 480>>, <<320, 240>>},
         bl \in {"Good", "Moderate", "Blurry", "VeryBlurry"},
         el \in {"WellExposed", "SlightlyDark", "Underexposed", "Overexposed"},
         mean_noise \in {25, 204},
         color \in {One, 5000}}

\* the defaults with the overall threshold 0.8
StrictConfig == [ValidationConfig_default EXCEPT !.overall_threshold = 800000]

ReportConfigs == {ValidationConfig_default, HdConfig, StrictConfig}

validate_report_frame == validate_provided_frame_from(1, ReportFrames)
update_report_config == update_quality_config_with(1, ReportConfigs)

ReportNext ==
    \/ validate_report_frame
    \/ ValidatorRead(1)
    \/ ValidateScore(1)
    \/ ValidateReport(1)
    \/ update_report_config
    \/ ValidatorWrite(1)
    \/ update_quality_config_store(1)
    \/ SessionReturns(1)

SpecReport == Init /\ [][ReportNext]_vars



(***************************************************************************)
(* commands/quality.rs and commands/capture.rs: the commands called by     *)
(* concurrent tasks, with the locks they take.  QUALITY_VALIDATOR and      *)
(* CAMERA_REGISTRY are tokio RwLocks and the camera is behind a tokio      *)
(* Mutex: each serves its waiters in the order of their requests, the      *)
(* first waiter as soon as the guards held allow it.  All the tasks use    *)
(* the default camera "0".  A step of a task runs from one await to the    *)
(* next; a guard taken by the step that ends at an await is held across    *)
(* it.                                                                     *)
(***************************************************************************)
\* the locals of the loop of w after a step: the call returns, sleeps or
\* calls capture_single_photo, which starts with CAMERA_REGISTRY.read();
\* held: the read guards on QUALITY_VALIDATOR, that of w among them
Proceed(w, t1, held, locks1) ==
    /\ workers' = [workers EXCEPT
                      ![w].t = t1,
                      ![w].pc = IF t1.pc = "capturing" THEN "registry_read"
                                ELSE t1.pc,
                      ![w].result = t1.result]
    /\ locks' = IF t1.pc = "capturing"
                THEN [locks1 EXCEPT !.registry.queue = Append(@, w)]
                ELSE locks1
    /\ readers' = IF t1.pc = "done" THEN held - 1 ELSE held

\* capture_best_quality_frame, lines 118-126, up to QUALITY_VALIDATOR.read()
worker_capture_best_quality_frame(w) ==
    /\ workers[w].pc = "idle"
    /\ \E num_attempts \in BestCounts :
          workers' = [workers EXCEPT ![w] =
              [IdleWorker EXCEPT
                  !.pc = "validator_read", !.op = "best",
                  !.t = [IdleTask EXCEPT
                            !.pc = "acquire", !.op = "best",
                            !.args = [NoArgs EXCEPT !.num_attempts = num_attempts],
                            !.attempts = Min(unwrap_or(num_attempts,
                                                       DefaultAttemptsBest),
                                             HardCapBest)]]]
    /\ locks' = [locks EXCEPT !.validator = Append(@, w)]
    /\ UNCHANGED <<task, config, readers, elapsed, obs, procs, writer, analysis>>

\* auto_capture_with_quality, lines 178-193, up to QUALITY_VALIDATOR.read()
worker_auto_capture_with_quality(w) ==
    /\ workers[w].pc = "idle"
    /\ \E max_attempts \in SampleCounts :
          workers' = [workers EXCEPT ![w] =
              [IdleWorker EXCEPT
                  !.pc = "validator_read", !.op = "auto",
                  !.t = [IdleTask EXCEPT
                            !.pc = "acquire", !.op = "auto",
                            !.args = [NoArgs EXCEPT !.max_attempts = max_attempts],
                            !.quality_threshold = unwrap_or(None, DefaultThreshold),
                            !.attempts = Min(unwrap_or(max_attempts,
                                                       DefaultAttemptsAuto),
                                             HardCapAuto),
                            !.timeout = unwrap_or(None, DefaultTimeout)]]]
    /\ locks' = [locks EXCEPT !.validator = Append(@, w)]
    /\ UNCHANGED <<task, config, readers, elapsed, obs, procs, writer, analysis>>

\* analyze_quality_trends, lines 237-245, up to QUALITY_VALIDATOR.read()
worker_analyze_quality_trends(w) ==
    /\ workers[w].pc = "idle"
    /\ \E num_samples \in SampleCounts :
          workers' = [workers EXCEPT ![w] =
              [IdleWorker EXCEPT
                  !.pc = "validator_read", !.op = "trend",
                  !.t = [IdleTask EXCEPT
                            !.pc = "acquire", !.op = "trend",
                            !.args = [NoArgs EXCEPT !.num_samples = num_samples],
                            !.attempts = Min(unwrap_or(num_samples, DefaultSamples),
                                             HardCapTrend)]]]
    /\ locks' = [locks EXCEPT !.validator = Append(@, w)]
    /\ UNCHANGED <<task, config, readers, elapsed, obs, procs, writer, analysis>>

\* validate_provided_frame, lines 34-37, up to QUALITY_VALIDATOR.read()
worker_validate_provided_frame(w) ==
    /\ workers[w].pc = "idle"
    /\ workers' = [workers EXCEPT ![w] =
                      [IdleWorker EXCEPT !.pc = "validator_read", !.op = "validate",
                                         !.frame = Some(GoodFrame)]]
    /\ locks' = [locks EXCEPT !.validator = Append(@, w)]
    /\ UNCHANGED <<task, config, readers, elapsed, obs, procs, writer, analysis>>

\* update_quality_config, lines 81-93, up to QUALITY_VALIDATOR.write()
worker_update_quality_config(w) ==
    /\ workers[w].pc = "idle"
    /\ \E dto \in Configs :
          workers' = [workers EXCEPT ![w] =
                         [IdleWorker EXCEPT !.pc = "validator_write", !.op = "update",
                                            !.dto = Some(dto)]]
    /\ locks' = [locks EXCEPT !.validator = Append(@, w)]
    /\ UNCHANGED <<task, config, readers, elapsed, obs, procs, writer, analysis>>

\* QUALITY_VALIDATOR.read().await returns its guard to the first waiter;
\* a loop runs up to its first capture_single_photo
ValidatorReadGranted(w) ==
    /\ workers[w].pc = "validator_read"
    /\ locks.validator # << >> /\ Head(locks.validator) = w
    /\ read_granted(readers, writer)
    /\ IF workers[w].op = "validate"
       THEN /\ workers' = [workers EXCEPT ![w].pc = "validating"]
            /\ readers' = readers + 1
            /\ locks' = [locks EXCEPT !.validator = Tail(@)]
       ELSE Proceed(w, Loop(workers[w].t, 1, 0), readers + 1,
                    [locks EXCEPT !.validator = Tail(@)])
    /\ UNCHANGED <<task, config, elapsed, obs, procs, writer, analysis>>

\* validate_provided_frame, lines 38-40: validate_frame, Ok(report); the
\* guard is dropped
worker_validate_frame(w) ==
    /\ workers[w].pc = "validating"
    /\ workers' = [workers EXCEPT
                      ![w].pc = "done",
                      ![w].result = Some(Ok(validate_frame(config,
                                                           workers[w].frame[1])))]
    /\ readers' = readers - 1
    /\ UNCHANGED <<task, config, elapsed, obs, procs, writer, analysis, locks>>

\* QUALITY_VALIDATOR.write().await returns its guard to the first waiter
ValidatorWriteGranted(w) ==
    /\ workers[w].pc = "validator_write"
    /\ locks.validator # << >> /\ Head(locks.validator) = w
    /\ write_granted(readers, writer)
    /\ writer' = w
    /\ workers' = [workers EXCEPT ![w].pc = "store"]
    /\ locks' = [locks EXCEPT !.validator = Tail(@)]
    /\ UNCHANGED <<task, config, readers, elapsed, obs, procs, analysis>>

\* update_quality_config, lines 94-96: *guard = validator; Ok(..); the
\* guard is dropped
worker_store(w) ==
    /\ workers[w].pc = "store"
    /\ config' = workers[w].dto[1]
    /\ writer' = 0
    /\ workers' = [workers EXCEPT
                      ![w].pc = "done",
                      ![w].result = Some(Ok("Quality validation configuration updated"))]
    /\ UNCHANGED <<task, readers, elapsed, obs, procs, analysis, locks>>

\* get_or_create_camera, capture.rs line 256 and line 264:
\* CAMERA_REGISTRY.read().await or .write().await returns its guard to the
\* first waiter
RegistryGranted(w) ==
    /\ workers[w].pc \in {"registry_read", "registry_write"}
    /\ locks.registry.queue # << >> /\ Head(locks.registry.queue) = w
    /\ IF workers[w].pc = "registry_read"
       THEN /\ read_granted(locks.registry.readers, locks.registry.writer)
            /\ locks' = [locks EXCEPT !.registry.queue = Tail(@),
                                      !.registry.readers = @ + 1]
            /\ workers' = [workers EXCEPT ![w].pc = "lookup"]
       ELSE /\ write_granted(locks.registry.readers, locks.registry.writer)
            /\ locks' = [locks EXCEPT !.registry.queue = Tail(@),
                                      !.registry.writer = w]
            /\ workers' = [workers EXCEPT ![w].pc = "create"]
    /\ UNCHANGED <<task, config, readers, elapsed, obs, procs, writer, analysis>>

\* get_or_create_camera, capture.rs lines 257-264: the camera is in the
\* registry, and capture_single_photo goes on to camera.lock() (line 33),
\* or it is not, and the task asks for the write guard; the read guard is
\* dropped
get_or_create_camera_lookup(w) ==
    /\ workers[w].pc = "lookup"
    /\ IF locks.created
       THEN /\ workers' = [workers EXCEPT ![w].pc = "camera_lock"]
            /\ locks' = [locks EXCEPT !.registry.readers = @ - 1,
                                      !.camera.queue = Append(@, w)]
       ELSE /\ workers' = [workers EXCEPT ![w].pc = "registry_write"]
            /\ locks' = [locks EXCEPT !.registry.readers = @ - 1,
                                      !.registry.queue = Append(@, w)]
    /\ UNCHANGED <<task, config, readers, elapsed, obs, procs, writer, analysis>>

\* get_or_create_camera, capture.rs lines 267-286: the camera was created
\* by another task, or PlatformCamera::new creates it, or fails and
\* capture_single_photo returns the Err (lines 25-28); the write guard is
\* dropped
get_or_create_camera_create(w) ==
    /\ workers[w].pc = "create"
    /\ \/ /\ workers' = [workers EXCEPT ![w].pc = "camera_lock"]
          /\ locks' = [locks EXCEPT !.registry.writer = 0,
                                    !.created = TRUE,
                                    !.camera.queue = Append(@, w)]
          /\ UNCHANGED readers
       \/ /\ ~locks.created
          /\ Proceed(w, Match(workers[w].t, config, CaptureErr), readers,
                     [locks EXCEPT !.registry.writer = 0])
    /\ UNCHANGED <<task, config, elapsed, obs, procs, writer, analysis>>

\* capture_single_photo, capture.rs lines 33 and 41: camera.lock().await
\* returns its guard to the first waiter
CameraGranted(w) ==
    /\ workers[w].pc \in {"camera_lock", "camera_lock_again"}
    /\ locks.camera.queue # << >> /\ Head(locks.camera.queue) = w
    /\ locks.camera.holder = 0
    /\ locks' = [locks EXCEPT !.camera.queue = Tail(@), !.camera.holder = w]
    /\ workers' = [workers EXCEPT
                      ![w].pc = IF workers[w].pc = "camera_lock"
                                THEN "start_stream" ELSE "capture_frame"]
    /\ UNCHANGED <<task, config, readers, elapsed, obs, procs, writer, analysis>>

\* capture_single_photo_start_stream with the guard of the first
\* camera.lock() kept to the end of the function
capture_single_photo_start_stream_holding(w) ==
    /\ workers[w].pc = "start_stream"
    /\ workers' = [workers EXCEPT ![w].pc = "camera_lock_again"]
    /\ locks' = [locks EXCEPT !.camera.queue = Append(@, w)]
    /\ UNCHANGED <<task, config, readers, elapsed, obs, procs, writer, analysis>>

\* capture_single_photo, capture.rs lines 32-41: start_stream, whose error
\* is only logged; the guard is dropped at the end of the block and the
\* task asks for the camera again
capture_single_photo_start_stream(w) ==
    /\ workers[w].pc = "start_stream"
    /\ workers' = [workers EXCEPT ![w].pc = "camera_lock_again"]
    /\ locks' = [locks EXCEPT !.camera.holder = 0,
                              !.camera.queue = Append(@, w)]
    /\ UNCHANGED <<task, config, readers, elapsed, obs, procs, writer, analysis>>

\* capture_single_photo, capture.rs lines 42-52: capture_frame gives a
\* frame or fails, the guard is dropped; then the match of the loop on the
\* result, up to the next await
capture_single_photo_capture_frame(w) ==
    /\ workers[w].pc = "capture_frame"
    /\ \E outcome \in {GoodFrame, CaptureErr} :
          Proceed(w, Match(workers[w].t, config, outcome), readers,
                  [locks EXCEPT !.camera.holder = 0])
    /\ UNCHANGED <<task, config, elapsed, obs, procs, writer, analysis>>

\* tokio::time::sleep(..).await returns; the next iteration runs up to its
\* capture_single_photo
worker_sleep_returns(w) ==
    /\ workers[w].pc = "sleeping"
    /\ Proceed(w, Loop([workers[w].t EXCEPT !.sleep = 0], workers[w].t.attempt + 1, 0),
               readers, locks)
    /\ UNCHANGED <<task, config, elapsed, obs, procs, writer, analysis>>

\* the caller takes the result of the finished call
worker_returns(w) ==
    /\ workers[w].pc = "done"
    /\ workers' = [workers EXCEPT ![w] = IdleWorker]
    /\ UNCHANGED <<task, config, readers, elapsed, obs, procs, writer, analysis, locks>>

\* the steps of a call of w after it was made
WorkerStep(w) ==
    \/ ValidatorReadGranted(w)
    \/ worker_validate_frame(w)
    \/ ValidatorWriteGranted(w)
    \/ worker_store(w)
    \/ RegistryGranted(w)
    \/ get_or_create_camera_lookup(w)
    \/ get_or_create_camera_create(w)
    \/ CameraGranted(w)
    \/ capture_single_photo_start_stream(w)
    \/ capture_single_photo_capture_frame(w)
    \/ worker_sleep_returns(w)
    \/ worker_returns(w)

LocksNext ==
    \E w \in Workers :
        \/ worker_capture_best_quality_frame(w)
        \/ worker_auto_capture_with_quality(w)
        \/ worker_analyze_quality_trends(w)
        \/ worker_validate_provided_frame(w)
        \/ worker_update_quality_config(w)
        \/ WorkerStep(w)

\* every await of a call returns once its lock can be granted to it, every
\* capture and every sleep ends
SpecLocks ==
    /\ Init
    /\ [][LocksNext]_vars
    /\ \A w \in Workers : WF_vars(WorkerStep(w))

(***************************************************************************)
(* quality/blur.rs and quality/exposure.rs: the per-pixel analyzers.  A    *)
(* frame is its width, its height and its buffer, a sequence of pixels     *)
(* <<r, g, b>> in row-major order.  The Laplacian variance is kept as the  *)
(* exact fraction num / den, the Sobel magnitude in units of 1/10, ratios  *)
(* and brightness in units of 1/One.                                       *)
(***************************************************************************)
MaxDim == 4

RECURSIVE SeqSum(_, _)
\* Iterator::sum over seq[i .. Len(seq)]
SeqSum(seq, i) == IF i > Len(seq) THEN 0 ELSE seq[i] + SeqSum(seq, i + 1)

\* the grey values v for which the f32 sum 0.299 v + 0.587 v + 0.114 v is
\* below v, so that `as u8` gives v - 1
GrayShort == {37, 61, 74, 93, 111, 122, 148, 186, 215, 222, 233, 244, 253}

\* the grey values v for which the f32 sum 0.2126 v + 0.7152 v + 0.0722 v is
\* below v
LuminanceShort ==
    {13, 26, 31, 47, 52, 57, 62, 91, 94, 101, 104, 111, 114, 124, 182, 185, 188,
     202, 208, 222, 228, 243, 248}

\* BlurDetector::rgb_to_grayscale, lines 108-113, on one pixel:
\* (0.299 * r + 0.587 * g + 0.114 * b) as u8
gray(pixel) ==
    LET sum == 299 * pixel[1] + 587 * pixel[2] + 114 * pixel[3]
    IN IF pixel[1] = pixel[2] /\ pixel[2] = pixel[3] /\ pixel[1] \in GrayShort
       THEN sum \div 1000 - 1
       ELSE sum \div 1000

\* BlurDetector::rgb_to_grayscale
rgb_to_grayscale(rgb_data) == [i \in 1 .. Len(rgb_data) |-> gray(rgb_data[i])]

laplacian_kernel == <<0, -1, 0, -1, 4, -1, 0, -1, 0>>
sobel_x == <<-1, 0, 1, -2, 0, 2, -1, 0, 1>>
sobel_y == <<-1, -2, -1, 0, 0, 0, 1, 2, 1>>

RECURSIVE convolve_short(_, _, _, _, _, _)
\* convolve taking the last row of the image for out of range
convolve_short(grayscale, width, kernel, x, y, k) ==
    IF k = 9 THEN 0
    ELSE LET pixel_index == (y + (k \div 3) - 1) * width + (x + (k % 3) - 1)
             term == IF pixel_index + width < Len(grayscale)
                     THEN grayscale[pixel_index + 1] * kernel[k + 1]
                     ELSE 0
         IN term + convolve_short(grayscale, width, kernel, x, y, k + 1)

RECURSIVE convolve(_, _, _, _, _, _)
\* the loops over ky and kx of calculate_laplacian_variance (lines 135-146)
\* and calculate_sobel_gradient (lines 186-198), from k = ky * 3 + kx on
convolve(grayscale, width, kernel, x, y, k) ==
    IF k = 9 THEN 0
    ELSE LET pixel_index == (y + (k \div 3) - 1) * width + (x + (k % 3) - 1)
             term == IF pixel_index < Len(grayscale)
                     THEN grayscale[pixel_index + 1] * kernel[k + 1]
                     ELSE 0
         IN term + convolve(grayscale, width, kernel, x, y, k + 1)

\* the pixels <<x, y>> of `for y in 1..(height - 1) { for x in 1..(width - 1)`
\* in the order of the loops, for width, height >= 1
interior(width, height) ==
    IF width <= 2 \/ height <= 2 THEN << >>
    ELSE [k \in 1 .. (width - 2) * (height - 2) |->
             <<1 + ((k - 1) % (width - 2)), 1 + ((k - 1) \div (width - 2))>>]

\* BlurDetector::calculate_laplacian_variance: the population variance
\* sum((x - mean)^2) / n = (n * sum(x^2) - sum(x)^2) / n^2
calculate_laplacian_variance(grayscale, width, height) ==
    LET at == interior(width, height)
        laplacian_values ==
            [k \in 1 .. Len(at) |->
                convolve(grayscale, width, laplacian_kernel, at[k][1], at[k][2], 0)]
        squares == [k \in 1 .. Len(at) |-> laplacian_values[k] * laplacian_values[k]]
        total == SeqSum(laplacian_values, 1)
    IN IF Len(at) = 0 THEN [num |-> 0, den |-> 1]
       ELSE [num |-> Len(at) * SeqSum(squares, 1) - total * total,
             den |-> Len(at) * Len(at)]

\* calculate_sobel_gradient with the forward difference for gx
calculate_sobel_gradient_forward(grayscale, width, height) ==
    LET at == interior(width, height)
        gradients ==
            [k \in 1 .. Len(at) |->
                LET gx == convolve(grayscale, width, <<0, 0, 0, 0, -1, 1, 0, 0, 0>>,
                                   at[k][1], at[k][2], 0)
                    gy == convolve(grayscale, width, sobel_y, at[k][1], at[k][2], 0)
                IN SqrtBetween(100 * (gx * gx + gy * gy), 0, 15000)]
    IN IF Len(at) = 0 THEN 0 ELSE SeqSum(gradients, 1) \div Len(at)

\* BlurDetector::calculate_sobel_gradient, in units of 1/10
calculate_sobel_gradient(grayscale, width, height) ==
    LET at == interior(width, height)
        gradients ==
            [k \in 1 .. Len(at) |->
                LET gx == convolve(grayscale, width, sobel_x, at[k][1], at[k][2], 0)
                    gy == convolve(grayscale, width, sobel_y, at[k][1], at[k][2], 0)
                IN SqrtBetween(100 * (gx * gx + gy * gy), 0, 15000)]
    IN IF Len(at) = 0 THEN 0 ELSE SeqSum(gradients, 1) \div Len(at)

\* BlurDetector::calculate_edge_density, in units of 1/One
calculate_edge_density(grayscale, width, height) ==
    LET at == interior(width, height)
        sampled == {k \in 1 .. Len(at) :
                       at[k][2] * width + at[k][1] < Len(grayscale)}
        neighbors(k) ==
            {(at[k][2] + dy) * width + (at[k][1] + dx) :
                 dx \in {-1, 0, 1}, dy \in {-1, 0, 1}}
                \ {at[k][2] * width + at[k][1]}
        edge(k) ==
            \E neighbor_idx \in neighbors(k) :
                /\ neighbor_idx < Len(grayscale)
                /\ Abs(grayscale[at[k][2] * width + at[k][1] + 1]
                       - grayscale[neighbor_idx + 1]) > 50
    IN IF sampled = {} THEN 0
       ELSE (Cardinality({k \in sampled : edge(k)}) * One) \div Cardinality(sampled)

\* BlurLevel::from_variance
BlurLevel_from_variance(variance) ==
    IF variance.num > 1000 * variance.den THEN "Sharp"
    ELSE IF variance.num > 500 * variance.den THEN "Good"
    ELSE IF variance.num > 200 * variance.den THEN "Moderate"
    ELSE IF variance.num > 50 * variance.den THEN "Blurry"
    ELSE "VeryBlurry"

\* BlurDetector::analyze_frame
BlurDetector_analyze(frame) ==
    LET grayscale == rgb_to_grayscale(frame.data)
        variance == calculate_laplacian_variance(grayscale, frame.width, frame.height)
        blur_level == BlurLevel_from_variance(variance)
    IN [variance |-> variance,
        gradient_magnitude |->
            calculate_sobel_gradient(grayscale, frame.width, frame.height),
        edge_density |-> calculate_edge_density(grayscale, frame.width, frame.height),
        blur_level |-> blur_level,
        quality_score |-> BlurLevel_quality_score(blur_level)]

\* ExposureAnalyzer::rgb_to_luminance, lines 117-122, on one pixel:
\* (0.2126 * r + 0.7152 * g + 0.0722 * b) as u8
luminance_of(pixel) ==
    LET sum == 2126 * pixel[1] + 7152 * pixel[2] + 722 * pixel[3]
    IN IF pixel[1] = pixel[2] /\ pixel[2] = pixel[3] /\ pixel[1] \in LuminanceShort
       THEN sum \div 10000 - 1
       ELSE sum \div 10000

\* ExposureAnalyzer::rgb_to_luminance
rgb_to_luminance(rgb_data) ==
    [i \in 1 .. Len(rgb_data) |-> luminance_of(rgb_data[i])]

\* calculate_histogram over the bins 0 .. 254
calculate_histogram_unsaturated(luminance) ==
    [bin \in 0 .. 255 |->
        IF bin = 255 THEN 0
        ELSE Cardinality({i \in 1 .. Len(luminance) : luminance[i] = bin})]

\* ExposureAnalyzer::calculate_histogram
calculate_histogram(luminance) ==
    [bin \in 0 .. 255 |-> Cardinality({i \in 1 .. Len(luminance) : luminance[i] = bin})]

\* calculate_mean_brightness of the inverted luminance
calculate_mean_brightness_inverted(luminance) ==
    IF Len(luminance) = 0 THEN 0
    ELSE ((255 * Len(luminance) - SeqSum(luminance, 1)) * One)
             \div (Len(luminance) * 255)

\* ExposureAnalyzer::calculate_mean_brightness
calculate_mean_brightness(luminance) ==
    IF Len(luminance) = 0 THEN 0
    ELSE (SeqSum(luminance, 1) * One) \div (Len(luminance) * 255)

\* ExposureAnalyzer::calculate_brightness_std: sqrt(variance) / 255, the
\* variance n * sum(x^2) - sum(x)^2 over n^2 taken in units of 1/100
calculate_brightness_std(luminance) ==
    LET n == Len(luminance)
        squares == [i \in 1 .. n |-> luminance[i] * luminance[i]]
        total == SeqSum(luminance, 1)
        num == n * SeqSum(squares, 1) - total * total
        den == n * n
        variance == (num \div den) * 100 + (((num % den) * 100) \div den)
    IN IF n = 0 THEN 0
       ELSE (SqrtBetween(variance, 0, 1280) * One) \div 2550

\* ExposureAnalyzer::calculate_dark_pixel_ratio, dark_threshold = 30
calculate_dark_pixel_ratio(luminance) ==
    IF Len(luminance) = 0 THEN 0
    ELSE (Cardinality({i \in 1 .. Len(luminance) : luminance[i] < 30}) * One)
             \div Len(luminance)

\* ExposureAnalyzer::calculate_bright_pixel_ratio, bright_threshold = 225
calculate_bright_pixel_ratio(luminance) ==
    IF Len(luminance) = 0 THEN 0
    ELSE (Cardinality({i \in 1 .. Len(luminance) : luminance[i] > 225}) * One)
             \div Len(luminance)

\* ExposureAnalyzer::calculate_dynamic_range: the lowest and the highest
\* populated bin, 255 and 0 when no bin is populated
calculate_dynamic_range(histogram) ==
    LET populated == {i \in 0 .. 255 : histogram[i] > 0}
        min_value == IF populated = {} THEN 255
                     ELSE CHOOSE i \in populated : \A j \in populated : i <= j
        max_value == IF populated = {} THEN 0
                     ELSE CHOOSE i \in populated : \A j \in populated : j <= i
    IN IF max_value > min_value THEN ((max_value - min_value) * One) \div 255
       ELSE 0

\* ExposureLevel::from_brightness
ExposureLevel_from_brightness(brightness) ==
    IF brightness < 2000 THEN "Underexposed"
    ELSE IF brightness < 3500 THEN "SlightlyDark"
    ELSE IF brightness < 6500 THEN "WellExposed"
    ELSE IF brightness < 8000 THEN "SlightlyBright"
    ELSE "Overexposed"

\* ExposureAnalyzer::analyze_frame
ExposureAnalyzer_analyze(frame) ==
    LET grayscale == rgb_to_luminance(frame.data)
        histogram == calculate_histogram(grayscale)
        mean_brightness == calculate_mean_brightness(grayscale)
        brightness_std == calculate_brightness_std(grayscale)
        dynamic_range == calculate_dynamic_range(histogram)
        exposure_level == ExposureLevel_from_brightness(mean_brightness)
    IN [mean_brightness |-> mean_brightness,
        brightness_std |-> brightness_std,
        histogram |-> histogram,
        dark_pixel_ratio |-> calculate_dark_pixel_ratio(grayscale),
        bright_pixel_ratio |-> calculate_bright_pixel_ratio(grayscale),
        dynamic_range |-> dynamic_range,
        exposure_level |-> exposure_level,
        quality_score |->
            calculate_quality_score(exposure_level, brightness_std, dynamic_range)]

\* The frames the analyzers are run on.
\* width x height pixels, all of them pixel
flat_frame(width, height, pixel) ==
    [width |-> width, height |-> height,
     data |-> [i \in 1 .. width * height |-> pixel]]

\* create_test_frame_with_brightness of the tests: every byte is brightness
create_test_frame_with_brightness(width, height, brightness) ==
    flat_frame(width, height, <<brightness, brightness, brightness>>)

\* the pixels alternate between first and 255 - first along rows and columns
checkerboard(width, height, first) ==
    [width |-> width, height |-> height,
     data |-> [i \in 1 .. width * height |->
                  LET v == IF (((i - 1) % width) + ((i - 1) \div width)) % 2 = 0
                           THEN first ELSE 255 - first
                  IN <<v, v, v>>]]

\* a black first column, the other columns white
edge_frame(width, height) ==
    [width |-> width, height |-> height,
     data |-> [i \in 1 .. width * height |->
                  IF (i - 1) % width = 0 THEN <<0, 0, 0>> ELSE <<255, 255, 255>>]]

\* the red, green and blue pixels of test_rgb_to_grayscale
RgbFrame ==
    [width |-> 3, height |-> 1, data |-> <<<<255, 0, 0>>, <<0, 255, 0>>, <<0, 0, 255>>>>]

\* a 4x4 frame whose buffer holds only the first two rows, of two greys
ShortFrame ==
    [width |-> 4, height |-> 4,
     data |-> [i \in 1 .. 8 |-> IF i <= 4 THEN <<128, 128, 128>> ELSE <<20, 20, 20>>]]

Dims == 1 .. MaxDim
Fills == {0, 20, 51, 52, 128, 240, 255}

PixelFrames ==
    {create_test_frame_with_brightness(w, h, v) : w \in Dims, h \in Dims, v \in Fills}
        \cup {checkerboard(w, h, first) : w \in Dims, h \in Dims, first \in {0, 255}}
        \cup {edge_frame(w, h) : w \in Dims, h \in Dims}
        \cup {flat_frame(w, h, <<255, 0, 0>>) : w \in Dims, h \in Dims}
        \cup {RgbFrame, ShortFrame}

\* validate_frame, validator.rs line 158, is called with a frame
AnalyzeFrame ==
    /\ analysis.pc = "idle"
    /\ \E frame \in PixelFrames :
          analysis' = [NoAnalysis EXCEPT !.pc = "blur", !.frame = Some(frame)]
    /\ UNCHANGED <<task, config, readers, elapsed, obs, procs, writer, workers, locks>>

\* validator.rs line 160: self.blur_detector.analyze_frame(frame)
BlurDetector_analyze_frame ==
    /\ analysis.pc = "blur"
    /\ analysis' = [analysis EXCEPT
                       !.pc = "exposure",
                       !.blur = Some(BlurDetector_analyze(analysis.frame[1]))]
    /\ UNCHANGED <<task, config, readers, elapsed, obs, procs, writer, workers, locks>>

\* validator.rs line 163: self.exposure_analyzer.analyze_frame(frame)
ExposureAnalyzer_analyze_frame ==
    /\ analysis.pc = "exposure"
    /\ analysis' = [analysis EXCEPT
                       !.pc = "done",
                       !.exposure = Some(ExposureAnalyzer_analyze(analysis.frame[1]))]
    /\ UNCHANGED <<task, config, readers, elapsed, obs, procs, writer, workers, locks>>

\* the metrics are dropped with the report
AnalysisReturns ==
    /\ analysis.pc = "done"
    /\ analysis' = NoAnalysis
    /\ UNCHANGED <<task, config, readers, elapsed, obs, procs, writer, workers, locks>>

AnalyzersNext ==
    \/ AnalyzeFrame
    \/ BlurDetector_analyze_frame
    \/ ExposureAnalyzer_analyze_frame
    \/ AnalysisReturns

SpecAnalyzers == Init /\ [][AnalyzersNext]_vars

(***************************************************************************)
(* Claims                                                                  *)
(***************************************************************************)
Done(op) == task.op = op /\ task.pc = "done"
Result == task.result[1]
Excellent(overall) == overall >= 900000
TimeoutError == "Auto-capture timeout"
ExhaustedError == "Failed to capture frame meeting quality threshold"
\* the threshold the caller of the running call asked for
RequestedThreshold == unwrap_or(task.args.min_quality_threshold, 700000)

\* C1: when auto_capture_with_quality returns Ok, the overall score of the
\* returned report is at least the requested threshold (default 0.7), the
\* report is the validation of the returned frame, which is the last frame
\* captured; every other end of the call is an error.
C1_AutoNeverBelowThreshold ==
    Done("auto") =>
        IF Result.ok
        THEN /\ Result.value.quality_report.score.overall >= RequestedThreshold
             /\ obs.last = Some(Result.value.frame)
             /\ Result.value.quality_report =
                    validate_frame(obs.cfg[1], Result.value.frame)
        ELSE /\ Result.error.kind \in {TimeoutError, ExhaustedError}
             /\ obs.ok > 0 => obs.max_overall < RequestedThreshold

\* an Ok of auto_capture_with_quality on a later attempt, with a score equal
\* to the requested threshold
C1_Witness ==
    /\ Done("auto")
    /\ Result.ok
    /\ Result.value.attempts_used >= 2
    /\ task.args.min_quality_threshold # None
    /\ Result.value.quality_report.score.overall = RequestedThreshold

\* C2: when capture_best_quality_frame returns Ok, the overall score of the
\* returned report is the maximum of the overall scores validated in the call,
\* and the returned report is the validation of the returned frame.
C2_BestIsMaximum ==
    (Done("best") /\ Result.ok) =>
        /\ Result.value.quality_report.score.overall = obs.max_overall
        /\ Result.value.quality_report =
               validate_frame(obs.cfg[1], Result.value.frame)

\* an Ok of capture_best_quality_frame whose last capture scored below the
\* returned report
C2_Witness ==
    /\ Done("best")
    /\ Result.ok
    /\ obs.ok >= 2
    /\ obs.last # None /\ obs.last[1] \in Frames
    /\ validate_frame(obs.cfg[1], obs.last[1]).score.overall
           < Result.value.quality_report.score.overall

\* C3: capture_best_quality_frame fails if and only if no capture of the call
\* succeeded; the overall score of a validated frame is never 0, the only
\* score the comparison with best_score = 0.0 would drop.
C3_BestFailsIffNoFrame ==
    /\ Done("best") => (~Result.ok <=> obs.ok = 0)
    /\ \A bl \in BlurLevel, el \in ExposureLevel :
          QualityScore_new(BlurLevel_quality_score(bl),
                           calculate_quality_score(el, 0, 0), 0, 0).overall > 0

\* a capture_best_quality_frame all of whose captures failed
C3_Witness ==
    /\ Done("best")
    /\ ~Result.ok
    /\ obs.failed >= 2
    /\ obs.issued = task.attempts

\* C4: attempts_used of capture_best_quality_frame is the number of captures
\* the call issued.
C4_AttemptsUsedIsIssued ==
    (Done("best") /\ Result.ok) => Result.value.attempts_used = obs.issued

\* C5: in capture_best_quality_frame a validated frame with overall >= 0.9
\* ends the call at once with that frame and its report; without such a frame
\* the call issues all its attempts.
C5_EarlyExitOnExcellent ==
    task.op = "best" =>
        /\ Excellent(obs.max_overall) =>
              /\ task.pc = "done"
              /\ Result.ok
              /\ obs.last = Some(Result.value.frame)
              /\ Result.value.quality_report.score.overall = obs.max_overall
        /\ (task.pc = "done" /\ ~Excellent(obs.max_overall)) =>
              obs.issued = task.attempts

\* capture_best_quality_frame stopped before its last attempt by a frame of
\* overall score exactly 0.9
C5_Witness ==
    /\ Done("best")
    /\ Result.ok
    /\ obs.issued >= 2
    /\ obs.issued < task.attempts
    /\ Result.value.quality_report.score.overall = 900000

\* what C6 says of one step
C6_Step ==
    task'.op = "auto" =>
        /\ obs'.issued > obs.issued => elapsed' < task'.timeout
        /\ task'.timeout = 0 => obs'.issued = 0
        /\ (/\ task.pc \in {"acquire", "sleeping"}
            /\ task'.pc # task.pc
            /\ task.attempt + 1 <= task.attempts
            /\ elapsed >= task.timeout) =>
              /\ task'.pc = "done"
              /\ ~task'.result[1].ok
              /\ task'.result[1].error.kind = TimeoutError
              /\ obs'.issued = obs.issued
        /\ (task.pc = "capturing" /\ task' # task) =>
              obs'.ok + obs'.failed = obs.ok + obs.failed + 1

\* C6: auto_capture_with_quality tests the timeout before every capture: a
\* capture is issued only when the timeout is not reached; when the test at
\* the top of an iteration finds it reached the call fails in that step with
\* no capture issued; with a timeout of 0 no capture is issued; a capture in
\* flight ends only by returning.
C6_TimeoutAtLoopTop == [][C6_Step]_vars

\* auto_capture_with_quality timed out after it had issued a capture
C6_Witness ==
    /\ Done("auto")
    /\ ~Result.ok
    /\ Result.error.kind = TimeoutError
    /\ task.timeout > 0
    /\ obs.issued >= 1

C8_Slots ==
    /\ obs.issued <= task.attempts
    /\ task.pc = "capturing" =>
          obs.issued = task.attempt /\ obs.ok + obs.failed + 1 = obs.issued
    /\ task.pc \in {"sleeping", "done"} => obs.ok + obs.failed = obs.issued

\* an error is returned only when the budget has ended without a success
C8_ErrorOnlyAtBudgetEnd ==
    (task.pc = "done" /\ ~Result.ok) =>
        CASE task.op = "best" -> obs.issued = task.attempts /\ obs.ok = 0
          [] task.op = "trend" -> obs.issued = task.attempts /\ obs.ok = 0
          [] task.op = "auto" ->
                /\ obs.issued = task.attempts \/ elapsed >= task.timeout
                /\ obs.ok > 0 => obs.max_overall < task.quality_threshold

\* a failed capture with budget left is followed by the sleep or by the next
\* capture
C8_Step ==
    /\ C8_Slots /\ C8_ErrorOnlyAtBudgetEnd
    /\ (obs'.failed = obs.failed + 1 /\ task.attempt < task.attempts) =>
          /\ task'.pc \in {"capturing", "sleeping"}
          /\ task'.pc = "capturing" => task'.attempt = task.attempt + 1
          /\ task'.pc = "sleeping" => task'.attempt = task.attempt

\* C8: a failed capture never ends an operation while budget remains and
\* takes one slot of the budget; an operation returns an error only when its
\* budget has ended without a success.
C8_CaptureFailureNonFatal == [][C8_Step]_vars

\* an operation that went on after a failed capture and returned Ok
C8_Witness ==
    /\ task.pc = "done"
    /\ Result.ok
    /\ obs.failed >= 1
    /\ obs.last # None /\ obs.last[1] \in Frames

\* C9 as stated: failed captures do not reduce the number of samples
\* collected: when captures succeed again after a failure the trend analysis
\* covers the requested number of samples.
C9_Original ==
    (Done("trend") /\ obs.failed >= 1 /\ obs.last # None /\ obs.last[1] \in Frames) =>
        /\ Result.ok
        /\ Result.value.samples_analyzed = task.attempts

\* C9 amended: analyze_quality_trends issues exactly the requested number
\* (at most 20) of captures; every failed capture takes one of them, so the
\* reports collected are the requested number less the failed captures.
C9_FailuresConsumeSamples ==
    /\ task.op = "trend" => BagCardinality(task.reports) = obs.ok
    /\ Done("trend") =>
          /\ obs.issued = task.attempts
          /\ BagCardinality(task.reports) = task.attempts - obs.failed
          /\ Result.ok => Result.value.samples_analyzed = task.attempts - obs.failed

\* a trend analysis over fewer samples than requested, its last capture a
\* success
C9_Witness ==
    /\ Done("trend")
    /\ Result.ok
    /\ obs.failed >= 1
    /\ obs.last # None /\ obs.last[1] \in Frames
    /\ Result.value.samples_analyzed < task.attempts

\* C10: analyze_quality_trends returns an error if and only if no capture of
\* the call succeeded; on Ok samples_analyzed is at least 1 and is the number
\* of successful captures, and no statistic is NaN.
C10_TrendNeverEmpty ==
    Done("trend") =>
        /\ ~Result.ok <=> obs.ok = 0
        /\ Result.ok =>
              /\ Result.value.samples_analyzed >= 1
              /\ Result.value.samples_analyzed = obs.ok
              /\ \A f \in DOMAIN Result.value : Result.value[f] # NaN

\* a trend analysis all of whose captures failed
C10_Witness ==
    /\ Done("trend")
    /\ ~Result.ok
    /\ obs.failed >= 2
    /\ obs.failed = task.attempts

\* the count the caller of the running call asked for, and its hard cap
RequestedCount ==
    CASE task.op = "best" -> unwrap_or(task.args.num_attempts, 5)
      [] task.op = "auto" -> unwrap_or(task.args.max_attempts, 20)
      [] task.op = "trend" -> unwrap_or(task.args.num_samples, 10)
HardCap ==
    CASE task.op = "best" -> 10
      [] task.op = "auto" -> 50
      [] task.op = "trend" -> 20

\* C19: every call of the three retry loops returns, provided its capture
\* calls return, and never issues more capture calls than the smaller of the
\* requested count and the hard cap: 10 for capture_best_quality_frame, 50
\* for auto_capture_with_quality, 20 for analyze_quality_trends.
C19_TerminatesWithinCap ==
    /\ [](task.op # "none" => obs.issued <= Min(RequestedCount, HardCap))
    /\ (task.pc = "acquire") ~> (task.pc = "done")

\* auto_capture_with_quality asked for 51 attempts returned after 50 captures
C19_Witness ==
    /\ Done("auto")
    /\ task.args.max_attempts = Some(51)
    /\ obs.issued = 50
    /\ ~Result.ok

\* the pause of each operation, in ms
Pause ==
    [best |-> 100, auto |-> 50, trend |-> 200]

\* what C26 says of one step
C26_Step ==
    /\ (task.pc = "capturing" /\ task'.pc # "capturing" /\ task'.pc # "done") =>
          task'.pc = "sleeping" /\ task'.sleep = Pause[task.op]
    /\ (obs.issued >= 1 /\ obs'.issued = obs.issued + 1) =>
          task.pc = "sleeping" /\ task.sleep = Pause[task.op]

\* C26: in every operation a capture that has returned, failed or not, is
\* followed by the fixed pause of the operation (100 ms, 50 ms, 200 ms)
\* before the next capture is issued: between two consecutive captures of
\* a call there is one pause.
C26_PausedBetweenCaptures == [][C26_Step]_vars

\* what C28 says of one step
C28_Step ==
    /\ task.pc \in {"capturing", "sleeping"} => config' = config
    /\ config' # config => readers = 0 /\ task.pc \in {"idle", "acquire", "done"}
    /\ (task.pc = "capturing" /\ obs.cfg # None /\ obs'.cfg # None) =>
          obs'.cfg = obs.cfg
    /\ (task.pc = "capturing" /\ obs'.ok = obs.ok + 1) => obs'.cfg = Some(config)

\* C28: from the first capture of a call of a retry loop to its return the
\* configuration of the validator does not change, so all the validations
\* of the call read the same configuration; an update_quality_config
\* changes the configuration only while no call holds the validator.
C28_OneConfigPerCall == [][C28_Step]_vars

\* a call that validated two frames with the defaults has returned, and the
\* configuration has been replaced since
C28_Witness ==
    /\ task.pc = "done"
    /\ obs.ok >= 2
    /\ obs.cfg = Some(ValidationConfig_default)
    /\ config = HdConfig

(***************************************************************************)
(* Claims on the validator commands                                        *)
(***************************************************************************)
Finished(p, op) == procs[p].op = op /\ procs[p].pc = "done"
Validated(p) == Finished(p, "validate")
Report(p) == procs[p].result[1].value
FrameOf(p) == procs[p].frame[1]
Used(p) == procs[p].used[1]

\* C11: get_quality_config returns the configuration the validator has when
\* the call returns: the defaults before any update, the configuration of the
\* last completed update_quality_config after it.
C11_GetReturnsCurrent ==
    \A p \in Procs :
        Finished(p, "get") =>
            /\ procs[p].result[1].ok
            /\ procs[p].result[1].value = Used(p)

\* what C12 says of one step
C12_Step ==
    /\ \A p \in Procs :
          /\ (procs[p].pc = "scored" /\ procs'[p].pc = "done") =>
                /\ procs'[p].result[1].value = validate_frame(config, FrameOf(p))
                /\ procs[p].used = Some(config)
                /\ config' = config
          /\ (procs[p].pc = "done" /\ procs'[p].pc = "done") =>
                procs'[p].result = procs[p].result
          /\ procs[p].pc = "store" =>
                /\ writer = p
                /\ readers = 0
                /\ \A q \in Procs \ {p} :
                      procs[q].pc \notin {"store", "guarded", "scored"}
    /\ config' # config =>
          \E p \in Procs :
              /\ procs[p].pc = "store"
              /\ procs'[p].pc = "done"
              /\ config' = procs[p].dto[1]

\* C12: a validation computes its whole report from one configuration, the
\* one the validator has while the validation holds its guard, which is the
\* configuration of the last update completed before; the configuration
\* changes only in the store of an update, which runs with no other guard
\* held, so two stores never overlap; a report once issued never changes.
C12_NoTornConfig == [][C12_Step]_vars

\* a report issued under one configuration, kept while another session has
\* since replaced the configuration
C12_Witness ==
    \E p, q \in Procs :
        /\ Validated(p)
        /\ Used(p) = HiResConfig
        /\ Report(p) = validate_frame(HiResConfig, VgaFrame)
        /\ Finished(q, "update")
        /\ config = HdConfig

\* thresholds in [0,1], a noise ceiling in [0,1]
WellFormed(c) ==
    /\ c.blur_threshold \in 0 .. One
    /\ c.exposure_threshold \in 0 .. One
    /\ c.overall_threshold \in 0 .. Full
    /\ c.max_noise_level \in 0 .. One

\* C13: update_quality_config returns an error for a malformed configuration
\* and leaves the validator's configuration as it was, so the configuration
\* of the validator is always well formed.
C13_MalformedRejected ==
    /\ WellFormed(config)
    /\ \A p \in Procs :
          (Finished(p, "update") /\ ~WellFormed(procs[p].dto[1])) =>
              ~procs[p].result[1].ok

\* a non-empty buffer of width * height * 3 bytes
ValidShape(frame) ==
    /\ frame.len > 0
    /\ frame.width > 0
    /\ frame.height > 0
    /\ frame.len = frame.width * frame.height * 3

\* C14: a frame of invalid shape is never analyzed: validate_provided_frame
\* returns an error for it and no report.
C14_InvalidFrameRejected ==
    \A p \in Procs :
        (procs[p].op = "validate" /\ ~ValidShape(FrameOf(p))) =>
            /\ procs[p].pc # "scored"
            /\ procs[p].pc = "done" => ~procs[p].result[1].ok

\* C15: the report of a validated frame has is_acceptable exactly when the
\* overall, blur and exposure scores reach their thresholds, the width and
\* the height reach the minimum resolution and the noise estimate does not
\* exceed the noise ceiling, of the configuration the validation used.
C15_AcceptableIffAllFive ==
    \A p \in Procs :
        Validated(p) =>
            (Report(p).is_acceptable <=>
                /\ Report(p).score.overall >= Used(p).overall_threshold
                /\ Report(p).score.blur >= Used(p).blur_threshold
                /\ Report(p).score.exposure >= Used(p).exposure_threshold
                /\ FrameOf(p).width >= Used(p).min_resolution[1]
                /\ FrameOf(p).height >= Used(p).min_resolution[2]
                /\ Report(p).technical_details.noise_estimate
                       <= Used(p).max_noise_level)

\* a frame graded VeryGood that the defaults reject for its resolution alone
C15_Witness ==
    \E p \in Procs :
        /\ Validated(p)
        /\ Used(p) = ValidationConfig_default
        /\ Report(p).score.overall >= 800000
        /\ Report(p).score.blur >= Used(p).blur_threshold
        /\ Report(p).score.exposure >= Used(p).exposure_threshold
        /\ Report(p).technical_details.noise_estimate <= Used(p).max_noise_level
        /\ FrameOf(p).width < Used(p).min_resolution[1]
        /\ ~Report(p).is_acceptable

\* q validated the frame of p under the configuration of p with the minimum
\* resolution raised above the frame, and p found the frame acceptable
RaisedAbove(p, q) ==
    /\ Validated(p) /\ Validated(q)
    /\ FrameOf(p) = FrameOf(q)
    /\ Report(p).is_acceptable
    /\ Used(q).min_resolution[1] > FrameOf(p).width
    /\ Used(q).min_resolution[2] > FrameOf(p).height
    /\ Used(q) = [Used(p) EXCEPT !.min_resolution = Used(q).min_resolution]

\* C16 as stated: with the minimum resolution raised above the frame the
\* frame is no longer acceptable and all its scores and its grade are the
\* same.
C16_Original ==
    \A p, q \in Procs :
        RaisedAbove(p, q) =>
            /\ ~Report(q).is_acceptable
            /\ Report(q).score = Report(p).score
            /\ Report(q).grade = Report(p).grade

\* C16 amended: with the minimum resolution raised above the frame the frame
\* is no longer acceptable; its blur, exposure and technical scores are the
\* same, its composition score is 0.16 lower and its overall score 0.024
\* lower, and its grade is the grade of the lowered overall score.
C16_RaisedResolutionLowersComposition ==
    \A p, q \in Procs :
        RaisedAbove(p, q) =>
            /\ ~Report(q).is_acceptable
            /\ Report(q).score.blur = Report(p).score.blur
            /\ Report(q).score.exposure = Report(p).score.exposure
            /\ Report(q).score.technical = Report(p).score.technical
            /\ Report(q).score.composition = Report(p).score.composition - 1600
            /\ Report(q).score.overall = Report(p).score.overall - 24000
            /\ Report(q).grade = get_grade(Report(p).score.overall - 24000)

\* the 640x480 frame validated with the defaults and with the minimum
\* resolution 1920x1080
C16_Witness ==
    \E p, q \in Procs :
        /\ RaisedAbove(p, q)
        /\ Used(p) = ValidationConfig_default
        /\ Used(q) = HiResConfig
        /\ FrameOf(p) = VgaFrame

\* C17: in the report of a valid frame the four sub-scores and the overall
\* score are in [0,1] and the overall score is the weighted sum of the
\* sub-scores with the weights 0.35, 0.35, 0.15, 0.15, clamped to [0,1].
C17_ScoresInUnitInterval ==
    \A p \in Procs :
        (Validated(p) /\ ValidShape(FrameOf(p))) =>
            LET score == Report(p).score
            IN /\ score.blur \in 0 .. One
               /\ score.exposure \in 0 .. One
               /\ score.composition \in 0 .. One
               /\ score.technical \in 0 .. One
               /\ score.overall \in 0 .. Full
               /\ score.overall =
                      Max(0, Min(Full, 35 * score.blur + 35 * score.exposure
                                       + 15 * score.composition
                                       + 15 * score.technical))

\* the report of a valid frame whose sampled variances exceed 255: the noise
\* estimate is clamped to 1.0 and the overall score is 1.0
C17_Witness ==
    \E p \in Procs :
        /\ Validated(p)
        /\ FrameOf(p) = NoisyFrame
        /\ Used(p) = ValidationConfig_default
        /\ Report(p).score.technical = One
        /\ Report(p).score.overall = Full

\* the bands in ascending order and the lower bound of each
Bands == <<"VeryPoor", "Poor", "Fair", "Good", "VeryGood", "Excellent">>
LowerBounds == <<0, 400000, 600000, 700000, 800000, 900000>>
Rank(grade) == CHOOSE i \in 1 .. 6 : Bands[i] = grade
Band(overall) ==
    Bands[CHOOSE i \in 1 .. 6 :
              /\ LowerBounds[i] <= overall
              /\ \A j \in 1 .. 6 : LowerBounds[j] <= overall => j <= i]
\* the overall scores at and next to the band limits
BandScores ==
    UNION {{b - 1, b, b + 1} \cap (0 .. Full) : b \in {LowerBounds[i] : i \in 1 .. 6}}
        \cup {Full}

\* get_grade on the overall scores at and next to the band limits
BandTable ==
    \A a, b \in BandScores :
        /\ get_grade(a) = Band(a)
        /\ a <= b => Rank(get_grade(a)) <= Rank(get_grade(b))

\* C18: the grade of a report is the band of its overall score, each lower
\* bound inclusive, and a higher overall score never has a lower grade.
C18_GradeIsBandOfOverall ==
    /\ \A p \in Procs :
          Validated(p) => Report(p).grade = Band(Report(p).score.overall)
    /\ \A p, q \in Procs :
          (/\ Validated(p) /\ Validated(q)
           /\ Report(p).score.overall <= Report(q).score.overall) =>
              Rank(Report(p).grade) <= Rank(Report(q).grade)
    /\ BandTable

\* a report with the overall score exactly 0.9, graded Excellent, next to a
\* report with a lower score and a lower grade
C18_Witness ==
    \E p, q \in Procs :
        /\ Validated(p) /\ Validated(q)
        /\ Report(p).score.overall = 900000
        /\ Report(p).grade = "Excellent"
        /\ Report(q).score.overall < 900000
        /\ Report(q).grade = "VeryGood"

\* what C20 says of one step
C20_Step ==
    /\ \A p \in Procs :
          (procs[p].op = "validate" /\ procs'[p] # procs[p]) => config' = config
    /\ \A p, q \in Procs :
          (/\ Validated(p) /\ Validated(q)
           /\ FrameOf(p) = FrameOf(q)
           /\ Used(p) = Used(q)) =>
              Report(p) = Report(q)

Analyzed == analysis.frame[1]
BlurMetrics == analysis.blur[1]
ExposureMetrics == analysis.exposure[1]
\* width, height > 0 and a buffer of width * height pixels of 3 bytes
ValidFrame(frame) ==
    /\ frame.width > 0
    /\ frame.height > 0
    /\ Len(frame.data) = frame.width * frame.height
Flat(frame) == \A i, j \in 1 .. Len(frame.data) : frame.data[i] = frame.data[j]
\* a / b > c / d for the variances of two frames
Greater(a, b) ==
    IF a.den = b.den THEN a.num > b.num ELSE a.num * b.den > b.num * a.den

\* C21: the blur analysis of a valid frame all of whose pixels are equal,
\* whatever its dimensions, has the Laplacian variance 0, the blur level
\* VeryBlurry and the quality score 0.1.
C21_FlatIsVeryBlurry ==
    (analysis.blur # None /\ ValidFrame(Analyzed) /\ Flat(Analyzed)) =>
        /\ BlurMetrics.variance.num = 0
        /\ BlurMetrics.blur_level = "VeryBlurry"
        /\ BlurMetrics.quality_score = 1000

\* the blur analysis of a flat 4x4 frame of a non-zero grey, which has four
\* interior pixels
C21_Witness ==
    /\ analysis.blur # None
    /\ Analyzed = create_test_frame_with_brightness(4, 4, 128)
    /\ Len(interior(Analyzed.width, Analyzed.height)) = 4
    /\ BlurMetrics.blur_level = "VeryBlurry"

IsCheckerboard(frame) ==
    \E first \in {0, 255} : frame = checkerboard(frame.width, frame.height, first)
\* the blur analysis of the flat frames of the dimensions of frame
FlatMetrics(frame) ==
    {BlurDetector_analyze(create_test_frame_with_brightness(frame.width,
                                                           frame.height, v)) :
         v \in Fills}

\* C22 as stated: a 0/255 checkerboard of any width and height has a
\* Laplacian variance and a Sobel mean gradient magnitude strictly greater
\* than the flat frame of the same dimensions.
C22_Original ==
    (analysis.blur # None /\ IsCheckerboard(Analyzed)) =>
        \A flat \in FlatMetrics(Analyzed) :
            /\ Greater(BlurMetrics.variance, flat.variance)
            /\ BlurMetrics.gradient_magnitude > flat.gradient_magnitude

\* C22 amended: a 0/255 checkerboard with at least two interior pixels has a
\* Laplacian variance strictly greater than the flat frame of the same
\* dimensions and is classified Sharp; with fewer interior pixels its
\* variance is 0; its Sobel mean gradient magnitude is 0 whatever its
\* dimensions, equal to that of the flat frame.
C22_CheckerboardLaplacianOnly ==
    (analysis.blur # None /\ IsCheckerboard(Analyzed)) =>
        \A flat \in FlatMetrics(Analyzed) :
            /\ Len(interior(Analyzed.width, Analyzed.height)) >= 2 =>
                  /\ Greater(BlurMetrics.variance, flat.variance)
                  /\ BlurMetrics.blur_level = "Sharp"
            /\ Len(interior(Analyzed.width, Analyzed.height)) < 2 =>
                  BlurMetrics.variance.num = 0
            /\ BlurMetrics.gradient_magnitude = 0
            /\ flat.gradient_magnitude = 0

\* the blur analysis of the 4x4 checkerboard: the Laplacian is +1020 and
\* -1020 on its four interior pixels
C22_Witness ==
    /\ analysis.blur # None
    /\ Analyzed = checkerboard(4, 4, 0)
    /\ BlurMetrics.variance = [num |-> 16 * 1020 * 1020, den |-> 16]
    /\ BlurMetrics.gradient_magnitude = 0

\* the fill value of a frame of create_test_frame_with_brightness
IsFilled(frame, v) ==
    frame = create_test_frame_with_brightness(frame.width, frame.height, v)
\* the mean brightness of the 2x2 frame filled with v
FilledBrightness(v) ==
    calculate_mean_brightness(
        rgb_to_luminance(create_test_frame_with_brightness(2, 2, v).data))
\* the mean brightness never falls from one fill value to the next
BrightnessTable == \A v \in 1 .. 255 : FilledBrightness(v - 1) <= FilledBrightness(v)

\* C23: the mean brightness of a uniform frame is non-decreasing in its fill
\* value; the frame filled with 20 is Underexposed, with 128 WellExposed,
\* with 240 Overexposed.
C23_BrightnessMonotonic ==
    /\ BrightnessTable
    /\ analysis.exposure # None =>
          \A v \in Fills :
              IsFilled(Analyzed, v) =>
                  /\ \A u \in Fills :
                        u <= v =>
                            calculate_mean_brightness(rgb_to_luminance(
                                create_test_frame_with_brightness(
                                    Analyzed.width, Analyzed.height, u).data))
                                <= ExposureMetrics.mean_brightness
                  /\ v = 20 => ExposureMetrics.exposure_level = "Underexposed"
                  /\ v = 128 => ExposureMetrics.exposure_level = "WellExposed"
                  /\ v = 240 => ExposureMetrics.exposure_level = "Overexposed"

\* the exposure analysis of a frame filled with 52, whose mean brightness
\* 0.2 is that of the frame filled with 51
C23_Witness ==
    /\ analysis.exposure # None
    /\ IsFilled(Analyzed, 52)
    /\ Analyzed.width = 3 /\ Analyzed.height = 2
    /\ ExposureMetrics.mean_brightness = FilledBrightness(51)
    /\ ExposureMetrics.exposure_level = "SlightlyDark"

RECURSIVE BinSum(_, _, _)
\* the counts of the bins lo .. hi
BinSum(histogram, lo, hi) ==
    IF lo = hi THEN histogram[lo]
    ELSE BinSum(histogram, lo, (lo + hi) \div 2)
             + BinSum(histogram, (lo + hi) \div 2 + 1, hi)

\* C24: the exposure histogram of a valid frame has the 256 bins 0 .. 255
\* and its counts sum to width * height.
C24_HistogramSumsToPixels ==
    (analysis.exposure # None /\ ValidFrame(Analyzed)) =>
        /\ DOMAIN ExposureMetrics.histogram = 0 .. 255
        /\ BinSum(ExposureMetrics.histogram, 0, 255) = Analyzed.width * Analyzed.height

\* the histogram of the 4x4 checkerboard: eight pixels in bin 0, eight in
\* bin 255
C24_Witness ==
    /\ analysis.exposure # None
    /\ Analyzed = checkerboard(4, 4, 255)
    /\ ExposureMetrics.histogram[0] = 8
    /\ ExposureMetrics.histogram[255] = 8

(***************************************************************************)
(* Claims on the reports                                                   *)
(***************************************************************************)
Recommendations(p) == Report(p).recommendations
Recommended(p) == {Recommendations(p)[i] : i \in DOMAIN Recommendations(p)}
\* the messages of the rules in the order of the rules, and whether the rule
\* of each fires on frame under the configuration c
RuleMessages ==
    <<BlurryMessage, UnderexposedMessage, OverexposedMessage, NoiseMessage,
      ResolutionMessage, ColorMessage>>
RuleFires(c, frame) ==
    <<frame.blur_level \in {"Blurry", "VeryBlurry"},
      frame.exposure_level = "Underexposed",
      frame.exposure_level = "Overexposed",
      frame.noise_estimate > c.max_noise_level,
      frame.width < c.min_resolution[1] \/ frame.height < c.min_resolution[2],
      frame.color_balance_score < 6000>>
RuleOf(message) == CHOOSE k \in 1 .. 6 : RuleMessages[k] = message

\* C25: the recommendations of a report are never empty; the message of a
\* rule is there exactly when that rule fires, whatever the other rules do,
\* and once; the messages are in the order of the rules; the "quality is
\* good" message is there exactly when no rule fires and is then alone.
C25_RecommendationRules ==
    \A p \in Procs :
        Validated(p) =>
            LET rec == Recommendations(p)
                fires == RuleFires(Used(p), FrameOf(p))
            IN /\ rec # << >>
               /\ \A k \in 1 .. 6 : RuleMessages[k] \in Recommended(p) <=> fires[k]
               /\ GoodMessage \in Recommended(p) <=> \A k \in 1 .. 6 : ~fires[k]
               /\ GoodMessage \in Recommended(p) => rec = <<GoodMessage>>
               /\ GoodMessage \notin Recommended(p) =>
                     \A i, j \in DOMAIN rec :
                         i < j => RuleOf(rec[i]) < RuleOf(rec[j])

\* a report on which the five rules fired
C25_Witness ==
    \E p \in Procs :
        /\ Validated(p)
        /\ Recommendations(p) =
               <<BlurryMessage, UnderexposedMessage, NoiseMessage,
                 ResolutionMessage, ColorMessage>>

\* the frames of the session that differ from frame by a lower noise estimate
LessNoisy(frame) ==
    {other \in ReportFrames :
        /\ other.noise_estimate < frame.noise_estimate
        /\ [other EXCEPT !.noise_estimate = frame.noise_estimate] = frame}

\* C27: the technical score of a report is the inverted noise estimate, and
\* a frame never has a higher overall score than the same frame with a lower
\* noise estimate.
C27_TechnicalIsInvertedNoise ==
    \A p \in Procs :
        Validated(p) =>
            /\ Report(p).score.technical =
                   One - Report(p).technical_details.noise_estimate
            /\ \A other \in LessNoisy(FrameOf(p)) :
                   Report(p).score.overall
                       <= validate_frame(Used(p), other).score.overall

\* C30 as stated: a report that is not acceptable never consists of the
\* single "quality is good" message.
C30_Original ==
    \A p \in Procs :
        (Validated(p) /\ ~Report(p).is_acceptable) =>
            Recommendations(p) # <<GoodMessage>>

\* C30 amended: a report that is not acceptable has the high noise message
\* when the noise estimate exceeds the ceiling and the low resolution
\* message when the frame is below the minimum resolution; it consists of
\* the single "quality is good" message only when the frame is rejected by
\* the overall, blur or exposure threshold alone, none of the rules firing.
C30_UnacceptableByThresholdsAlone ==
    \A p \in Procs :
        (Validated(p) /\ ~Report(p).is_acceptable) =>
            LET fires == RuleFires(Used(p), FrameOf(p))
            IN /\ fires[4] => NoiseMessage \in Recommended(p)
               /\ fires[5] => ResolutionMessage \in Recommended(p)
               /\ Recommendations(p) = <<GoodMessage>> =>
                     /\ \A k \in 1 .. 6 : ~fires[k]
                     /\ \/ Report(p).score.overall < Used(p).overall_threshold
                        \/ Report(p).score.blur < Used(p).blur_threshold
                        \/ Report(p).score.exposure < Used(p).exposure_threshold

\* a report of the defaults that is not acceptable, its overall score below
\* 0.7, and says that the quality is good
C30_Witness ==
    \E p \in Procs :
        /\ Validated(p)
        /\ Used(p) = ValidationConfig_default
        /\ ~Report(p).is_acceptable
        /\ Report(p).score.overall < 700000
        /\ Recommendations(p) = <<GoodMessage>>

(***************************************************************************)
(* Claims on the locks                                                     *)
(***************************************************************************)
\* C29: under fair scheduling, with every capture call returning, every
\* call of update_quality_config completes and every call of
\* validate_provided_frame and of the three retry loops returns, whatever
\* the interleaving: no call waits for ever on the validator lock, the
\* camera registry lock or the camera mutex
C29_EveryCallReturns ==
    \A w \in Workers : (workers[w].pc # "idle") ~> (workers[w].pc = "done")

\* an update waits for the write guard behind a retry loop that holds a
\* read guard and the camera, while the other task's call is under way
C29_Witness ==
    \E w \in Workers, v \in Workers :
        /\ workers[w].pc = "validator_write"
        /\ workers[v].op \in {"best", "auto", "trend"}
        /\ workers[v].pc = "capture_frame"
        /\ locks.camera.holder = v
        /\ readers = 1

====
